---- MODULE Spec2Model ----
(***************************************************************************)
(* Patchy: GitHub webhook -> Discord notification relay.                   *)
(*                                                                         *)
(* Two deployments of the ingestion endpoint live in the repository:       *)
(*   "main"       main.py + webhook_server.py + discord_bot.py (FastAPI,   *)
(*                persistent bot, background dispatch)                     *)
(*   "serverless" api/webhook.py (one blocking handler per invocation,     *)
(*                direct REST call to the chat API)                        *)
(* Strings are sequences of symbols, so that prefix tests, slicing and the *)
(* keyed digest are computed and not assumed.                              *)
(***************************************************************************)
EXTENDS Integers, Sequences, FiniteSets, TLC

VARIABLES
    env,          \* process environment: the three security-relevant variables
    deploy,       \* which entry point runs: "main" or "serverless"
    phase,        \* lifespan position of the process
    bot_instance, \* discord_bot.bot_instance: 0 is None, else an index into bots
    bots,         \* every GitHubNotificationBot ever constructed
    reqs,         \* one record per webhook request slot
    sendCalls,    \* every send call issued to the chat backend
    vf,           \* the signature verifier applied to one drawn input
    rd            \* the event renderer applied to one drawn input

vars == <<env, deploy, phase, bot_instance, bots, reqs, sendCalls, vf, rd>>

pipeVars == <<env, deploy, phase, bot_instance, bots, reqs, sendCalls>>

(***************************************************************************)
(* Bounds.                                                                 *)
(***************************************************************************)
MaxSecretLen == 1

MaxPayloadLen == 2

(***************************************************************************)
(* Text.                                                                   *)
(***************************************************************************)
\* One symbol per body chunk or character.  RefMember is the JSON member
\* "ref":"refs/heads/main" kept as one chunk; BadByte and OtherBadByte are the
\* bytes 0xFF and 0xFE, which no UTF-8 text contains.
RefMember == "\"ref\":\"refs/heads/main\""

BadByte == "\\xff"

OtherBadByte == "\\xfe"

Symbols == <<"{", "}", "[", "]", " ", RefMember, BadByte, "k", "j", OtherBadByte>>

Base == Len(Symbols) + 1

Ord(c) == CHOOSE i \in 1..Len(Symbols) : Symbols[i] = c

RECURSIVE Pow(_, _)
Pow(b, n) == IF n = 0 THEN 1 ELSE b * Pow(b, n - 1)

RECURSIVE SeqsUpTo(_, _)
SeqsUpTo(S, n) ==
    IF n = 0 THEN {<<>>}
    ELSE LET shorter == SeqsUpTo(S, n - 1)
         IN  shorter \cup {Append(s, c) : s \in shorter, c \in S}

Digits == <<"0", "1", "2", "3", "4", "5", "6", "7", "8", "9">>

\* str(n) for a natural number
RECURSIVE NatText(_)
NatText(n) ==
    IF n < 10 THEN <<Digits[n + 1]>>
    ELSE NatText(n \div 10) \o <<Digits[(n % 10) + 1]>>

\* str.startswith
StartsWith(s, p) == Len(s) >= Len(p) /\ SubSeq(s, 1, Len(p)) = p

\* s[n:]
DropFirst(s, n) == SubSeq(s, n + 1, Len(s))

(***************************************************************************)
(* HMAC-SHA256, idealised as a collision-free keyed digest: the pair       *)
(* (key, message) is numbered injectively and the number is written in     *)
(* lower-case hexadecimal of fixed width, as hexdigest() does.             *)
(***************************************************************************)
RECURSIVE Enc(_)
Enc(s) == IF s = <<>> THEN 0 ELSE Ord(Head(s)) + Base * Enc(Tail(s))

HexDigits == <<"0", "1", "2", "3", "4", "5", "6", "7",
               "8", "9", "a", "b", "c", "d", "e", "f">>

RECURSIVE HexOf(_, _)
HexOf(n, width) ==
    IF width = 0 THEN <<>>
    ELSE Append(HexOf(n \div 16, width - 1), HexDigits[(n % 16) + 1])

hmac_hexdigest(key, msg) ==
    HexOf(Enc(key) * Pow(Base, MaxPayloadLen + 2) + Enc(msg) + 1, 7)

Sha256Prefix == <<"s", "h", "a", "2", "5", "6", "=">>

Sha1Prefix == <<"s", "h", "a", "1", "=">>

\* local_test.py / test_railway.py: the signature GitHub sends
generate_github_signature(payload, secret) ==
    Sha256Prefix \o hmac_hexdigest(secret, payload)

(***************************************************************************)
(* Environment.  A variable is unset or holds a string.                    *)
(***************************************************************************)
Unset == [set |-> FALSE, val |-> <<>>]

EnvVal(s) == [set |-> TRUE, val |-> s]

\* os.getenv(name, default)
getenv(v, default) == IF v.set THEN v.val ELSE default

\* Python truthiness of os.getenv(name): None and "" are both falsy
Truthy(v) == v.set /\ v.val # <<>>

(***************************************************************************)
(* 4.1 Signature Verifier.                                                 *)
(***************************************************************************)
\* mutant: the prefix test is dropped and the digest is compared with the
\* header as it stands after slicing
verify_github_signature_noprefix(payload, signature, secret) ==
    IF secret = <<>> THEN TRUE
    ELSE hmac_hexdigest(secret, payload) \in
             {DropFirst(signature, 7), DropFirst(signature, 5), signature}

\* mutant: the disabled-verification branch is missing
verify_github_signature_strict(payload, signature, secret) ==
    IF ~StartsWith(signature, Sha256Prefix) THEN FALSE
    ELSE hmac_hexdigest(secret, payload) = DropFirst(signature, 7)

\* mutant: only the header's format is checked
verify_github_signature_formatonly(payload, signature, secret) ==
    IF secret = <<>> THEN TRUE
    ELSE StartsWith(signature, Sha256Prefix)

\* webhook_server.py: secret is config.GITHUB_WEBHOOK_SECRET
verify_github_signature(payload, signature, secret) ==
    IF secret = <<>> THEN TRUE
    ELSE IF ~StartsWith(signature, Sha256Prefix) THEN FALSE
    ELSE hmac_hexdigest(secret, payload) = DropFirst(signature, 7)

\* config.py: GITHUB_WEBHOOK_SECRET = os.getenv("GITHUB_WEBHOOK_SECRET", "")
config_GITHUB_WEBHOOK_SECRET(e) == getenv(e.GITHUB_WEBHOOK_SECRET, <<>>)

\* api/webhook.py: the secret is read from the environment on every call
api_verify_github_signature(payload, signature, e) ==
    IF ~Truthy(e.GITHUB_WEBHOOK_SECRET) THEN TRUE
    ELSE IF ~StartsWith(signature, Sha256Prefix) THEN FALSE
    ELSE hmac_hexdigest(e.GITHUB_WEBHOOK_SECRET.val, payload)
             = DropFirst(signature, 7)

(***************************************************************************)
(* Request bodies and their decoding.                                      *)
(***************************************************************************)
\* bytes.decode('utf-8'): TRUE when it returns, FALSE on UnicodeDecodeError
utf8_decodes(body) == \A i \in 1..Len(body) : body[i] \notin {BadByte, OtherBadByte}

\* str(e) of the UnicodeDecodeError: it names the first offending byte
unicode_error_str(body) ==
    LET i == CHOOSE k \in 1..Len(body) :
                 /\ body[k] \in {BadByte, OtherBadByte}
                 /\ \A j \in 1..(k - 1) : body[j] \notin {BadByte, OtherBadByte}
    IN  IF body[i] = BadByte
        THEN "'utf-8' codec can't decode byte 0xff: invalid start byte"
        ELSE "'utf-8' codec can't decode byte 0xfe: invalid start byte"

\* JSON ignores blanks between tokens
RECURSIVE StripBlanks(_)
StripBlanks(s) ==
    IF s = <<>> THEN <<>>
    ELSE IF Head(s) = " " THEN StripBlanks(Tail(s))
    ELSE <<Head(s)>> \o StripBlanks(Tail(s))

\* a JSON value over the symbols of this module: {} , {member} , [] , [value]
RECURSIVE IsJsonValue(_)
IsJsonValue(t) ==
    \/ t = <<"{", "}">>
    \/ t = <<"{", RefMember, "}">>
    \/ /\ Len(t) >= 2
       /\ t[1] = "["
       /\ t[Len(t)] = "]"
       /\ \/ Len(t) = 2
          \/ IsJsonValue(SubSeq(t, 2, Len(t) - 1))

(***************************************************************************)
(* Decoded JSON values, tagged by their Python type.                       *)
(***************************************************************************)
JNull == [t |-> "null"]

JNum(n) == [t |-> "num", n |-> n]

JStr(s) == [t |-> "str", s |-> s]

\* a list with its items
JsonList(items) == [t |-> "list", items |-> items]

\* a dict with its members, a function from keys to values
JsonObject(members) == [t |-> "obj", m |-> members]

NoMembers == [k \in {} |-> JNull]

IsDict(v) == v.t = "obj"

IsStr(v) == v.t = "str"

\* mutant: dict.get(key), which gives None for a missing key
dict_get_nodefault(d, key, default) ==
    IF key \in DOMAIN d.m THEN d.m[key] ELSE JNull

\* dict.get(key, default); the caller has made sure d is a dict
dict_get(d, key, default) ==
    IF key \in DOMAIN d.m THEN d.m[key] ELSE default

\* str(v), also what an f-string placeholder shows
py_str(v) ==
    CASE v.t = "str" -> v.s
      [] v.t = "null" -> <<"None">>
      [] v.t = "num" -> NatText(v.n)
      [] OTHER -> <<"<repr>">>

\* the text of d.get(key, default)
text_get(d, key, default) == py_str(dict_get(d, key, JStr(default)))

\* truth value of a Python object
Bool(v) ==
    CASE v.t = "null" -> FALSE
      [] v.t = "num" -> v.n # 0
      [] v.t = "str" -> v.s # <<>>
      [] v.t = "list" -> v.items # <<>>
      [] v.t = "obj" -> DOMAIN v.m # {}

\* len(v) is defined for strings, lists and dicts; TypeError otherwise
HasLen(v) == v.t \in {"str", "list", "obj"}

py_len(v) ==
    CASE v.t = "str" -> Len(v.s)
      [] v.t = "list" -> Len(v.items)
      [] v.t = "obj" -> Cardinality(DOMAIN v.m)

\* the value a JSON text over the symbols of this module decodes to
RECURSIVE JsonValueOf(_)
JsonValueOf(t) ==
    IF t = <<"{", "}">> THEN JsonObject(NoMembers)
    ELSE IF t = <<"{", RefMember, "}">>
    THEN JsonObject([ref |-> JStr(<<"refs/heads/", "main">>)])
    ELSE IF Len(t) = 2 THEN JsonList(<<>>)
    ELSE JsonList(<<JsonValueOf(SubSeq(t, 2, Len(t) - 1))>>)

\* json.loads: ok = FALSE stands for JSONDecodeError
json_loads(text) ==
    LET t == StripBlanks(text)
    IN  IF ~IsJsonValue(t) THEN [ok |-> FALSE, value |-> JNull]
        ELSE [ok |-> TRUE, value |-> JsonValueOf(t)]

(***************************************************************************)
(* 4.2 Event Renderer.  A notification carries its title, colour, footer   *)
(* and, in fields, the blocks whose presence depends on the payload        *)
(* (Latest Commit, Description, Labels); the blocks every notification of  *)
(* an event type has are left out.  A renderer that raises yields Raised.  *)
(***************************************************************************)
None == [none |-> TRUE]

Raised == [raised |-> TRUE]

\* the blocks a part of a renderer has assembled without raising
Blocks(fields) == [raised |-> FALSE, blocks |-> fields]

DescriptionCap == 500

DescriptionKeep == 497

CommitCap == 100

CommitKeep == 97

LabelsShown == 5

Ellipsis == <<".", ".", ".">>

\* str.replace(old, ""): every occurrence of the chunk is removed
RECURSIVE Remove(_, _)
Remove(s, old) ==
    IF s = <<>> THEN <<>>
    ELSE IF Head(s) = old THEN Remove(Tail(s), old)
    ELSE <<Head(s)>> \o Remove(Tail(s), old)

\* str.title() on the action words of this module
str_title(s) ==
    IF s = <<"opened">> THEN <<"Opened">>
    ELSE IF s = <<"closed">> THEN <<"Closed">>
    ELSE IF s = <<"open">> THEN <<"Open">>
    ELSE IF s = <<"unknown">> THEN <<"Unknown">>
    ELSE IF s = <<"published">> THEN <<"Published">>
    ELSE IF s = <<"branch">> THEN <<"Branch">>
    ELSE s

\* separator.join(names)
RECURSIVE str_join(_, _)
str_join(sep, names) ==
    IF names = <<>> THEN <<>>
    ELSE IF Len(names) = 1 THEN names[1]
    ELSE names[1] \o sep \o str_join(sep, Tail(names))

\* s[:n]
Slice(s, n) == SubSeq(s, 1, IF Len(s) < n THEN Len(s) ELSE n)

\* mutant: the text is cut at the cap and the marker appended after it
truncate_overlong(text, cap, keep) ==
    IF Len(text) > cap THEN Slice(text, cap) \o Ellipsis ELSE text

\* if len(text) > cap: text = text[:keep] + "..."
truncate(text, cap, keep) ==
    IF Len(text) > cap THEN Slice(text, keep) \o Ellipsis ELSE text

Field(name, value) == [name |-> name, value |-> value]

\* a block whose name ends in a number: "PR #" + str(number)
NumberedField(name, number, value) ==
    [name |-> name, number |-> number, value |-> value]

Embed(title, description, color, footer, author, fields) ==
    [none |-> FALSE, title |-> title, description |-> description,
     color |-> color, footer |-> footer, author |-> author, fields |-> fields]

\* the backquote that opens and closes inline code
BackQuote == "<backquote>"

Bold(text) == <<"**">> \o text \o <<"**">>

\* f"[{repository.get('full_name', 'Unknown')}]({repository.get('html_url', '#')})"
repository_link(repository) ==
    <<"[">> \o text_get(repository, "full_name", <<"Unknown">>) \o <<"](">>
        \o text_get(repository, "html_url", <<"#">>) \o <<")">>

\* the text of an f-string placeholder filled with a value that is no string
Formatted(v) == [t |-> "fmt", of |-> v]

\* the Latest Commit block of a push: the last commit's message, capped, as
\* the text of a link
latest_commit_fields(commits) ==
    IF ~Bool(commits) THEN Blocks(<<>>)
    ELSE IF commits.t # "list" THEN Raised
    ELSE LET latest_commit == commits.items[Len(commits.items)]
         IN  IF ~IsDict(latest_commit) THEN Raised
             ELSE LET commit_message ==
                          dict_get(latest_commit, "message", JStr(<<"No message">>))
                  IN  IF ~HasLen(commit_message) THEN Raised
                      ELSE IF IsStr(commit_message)
                      THEN Blocks(<<Field("Latest Commit",
                                   JStr(<<"[">> \o truncate(commit_message.s,
                                                            CommitCap, CommitKeep)
                                        \o <<"](">>
                                        \o text_get(latest_commit, "url", <<"#">>)
                                        \o <<")">>))>>)
                      ELSE IF py_len(commit_message) > CommitCap THEN Raised
                      ELSE Blocks(<<Field("Latest Commit", Formatted(commit_message))>>)

create_push_embed(payload) ==
    IF ~IsDict(payload) THEN Raised
    ELSE LET repository == dict_get(payload, "repository", JsonObject(NoMembers))
             pusher  == dict_get(payload, "pusher", JsonObject(NoMembers))
             ref     == dict_get(payload, "ref", JStr(<<>>))
             commits == dict_get(payload, "commits", JsonList(<<>>))
         IN  IF ~IsStr(ref) \/ ~HasLen(commits) \/ ~IsDict(repository)
                \/ ~IsDict(pusher)
             THEN Raised
             ELSE LET branch == IF StartsWith(ref.s, <<"refs/heads/">>)
                                THEN Remove(ref.s, "refs/heads/") ELSE ref.s
                      fields == latest_commit_fields(commits)
                  IN  IF fields.raised THEN Raised
                      ELSE Embed(<<"New Push to ">> \o branch,
                                 <<"**">> \o NatText(py_len(commits))
                                     \o <<" commit(s)** pushed to ", BackQuote>>
                                     \o text_get(repository, "name", <<"Unknown">>)
                                     \o <<BackQuote>>,
                                 2664261, "Patchy - GitHub Push Event",
                                 text_get(pusher, "name", <<"Unknown">>),
                                 <<Field("Repository",
                                         JStr(repository_link(repository))),
                                   Field("Pushed by",
                                         JStr(text_get(pusher, "name", <<"Unknown">>))),
                                   Field("Commits",
                                         JStr(NatText(py_len(commits))))>>
                                     \o fields.blocks)

\* the Description block of a pull request or release
description_fields(body) ==
    IF ~Bool(body) THEN Blocks(<<>>)
    ELSE IF ~HasLen(body) THEN Raised
    ELSE IF IsStr(body)
    THEN Blocks(<<Field("Description",
                 JStr(truncate(body.s, DescriptionCap, DescriptionKeep)))>>)
    ELSE IF py_len(body) > DescriptionCap THEN Raised
    ELSE Blocks(<<Field("Description", body)>>)

create_pull_request_embed(payload) ==
    IF ~IsDict(payload) THEN Raised
    ELSE LET pr     == dict_get(payload, "pull_request", JsonObject(NoMembers))
             action == dict_get(payload, "action", JStr(<<>>))
             repository == dict_get(payload, "repository", JsonObject(NoMembers))
         IN  IF ~IsDict(pr) \/ ~IsStr(action) \/ ~IsDict(repository) THEN Raised
             ELSE LET user   == dict_get(pr, "user", JsonObject(NoMembers))
                      state  == dict_get(pr, "state", JStr(<<"unknown">>))
                      fields == description_fields(dict_get(pr, "body", JStr(<<>>)))
                      color  == IF action.s = <<"opened">> THEN 2664261
                                ELSE IF action.s = <<"closed">> THEN 14431557
                                ELSE 7107965
                  IN  IF fields.raised \/ ~IsDict(user) \/ ~IsStr(state) THEN Raised
                      ELSE Embed(<<"Pull Request ">> \o str_title(action.s),
                                 Bold(text_get(pr, "title", <<"No title">>)),
                                 color, "Patchy - GitHub Pull Request Event",
                                 text_get(user, "login", <<"Unknown">>),
                                 <<NumberedField("PR #",
                                       text_get(pr, "number", <<"?">>),
                                       JStr(Bold(str_title(state.s)))),
                                   Field("Repository",
                                         JStr(repository_link(repository))),
                                   Field("Author",
                                         JStr(text_get(user, "login", <<"Unknown">>)))>>
                                     \o fields.blocks)

\* mutant: every label is named
labels_fields_unlimited(labels) ==
    IF ~Bool(labels) THEN Blocks(<<>>)
    ELSE IF labels.t # "list" THEN Raised
    ELSE LET shown == labels.items
         IN  IF \E i \in 1..Len(shown) :
                    \/ ~IsDict(shown[i])
                    \/ ~IsStr(dict_get(shown[i], "name", JStr(<<>>)))
             THEN Raised
             ELSE Blocks(<<Field("Labels",
                          JStr(str_join(<<", ">>,
                               [i \in 1..Len(shown) |->
                                   dict_get(shown[i], "name", JStr(<<>>)).s])))>>)

\* the Labels block of an issue: the names of the first five labels
labels_fields(labels) ==
    IF ~Bool(labels) THEN Blocks(<<>>)
    ELSE IF labels.t # "list" THEN Raised
    ELSE LET shown == Slice(labels.items, LabelsShown)
         IN  IF \E i \in 1..Len(shown) :
                    \/ ~IsDict(shown[i])
                    \/ ~IsStr(dict_get(shown[i], "name", JStr(<<>>)))
             THEN Raised
             ELSE Blocks(<<Field("Labels",
                          JStr(str_join(<<", ">>,
                               [i \in 1..Len(shown) |->
                                   dict_get(shown[i], "name", JStr(<<>>)).s])))>>)

create_issue_embed(payload) ==
    IF ~IsDict(payload) THEN Raised
    ELSE LET issue  == dict_get(payload, "issue", JsonObject(NoMembers))
             action == dict_get(payload, "action", JStr(<<>>))
             repository == dict_get(payload, "repository", JsonObject(NoMembers))
         IN  IF ~IsDict(issue) \/ ~IsStr(action) \/ ~IsDict(repository) THEN Raised
             ELSE LET user   == dict_get(issue, "user", JsonObject(NoMembers))
                      state  == dict_get(issue, "state", JStr(<<"unknown">>))
                      fields == labels_fields(dict_get(issue, "labels", JsonList(<<>>)))
                      color  == IF action.s = <<"opened">> THEN 14431557
                                ELSE IF action.s = <<"closed">> THEN 2664261
                                ELSE 7107965
                  IN  IF fields.raised \/ ~IsDict(user) \/ ~IsStr(state) THEN Raised
                      ELSE Embed(<<"Issue ">> \o str_title(action.s),
                                 Bold(text_get(issue, "title", <<"No title">>)),
                                 color, "Patchy - GitHub Issue Event",
                                 text_get(user, "login", <<"Unknown">>),
                                 <<NumberedField("Issue #",
                                       text_get(issue, "number", <<"?">>),
                                       JStr(Bold(str_title(state.s)))),
                                   Field("Repository",
                                         JStr(repository_link(repository))),
                                   Field("Author",
                                         JStr(text_get(user, "login", <<"Unknown">>)))>>
                                     \o fields.blocks)

create_release_embed(payload) ==
    IF ~IsDict(payload) THEN Raised
    ELSE LET release == dict_get(payload, "release", JsonObject(NoMembers))
             action  == dict_get(payload, "action", JStr(<<>>))
             repository == dict_get(payload, "repository", JsonObject(NoMembers))
         IN  IF ~IsDict(release) \/ ~IsStr(action) \/ ~IsDict(repository) THEN Raised
             ELSE LET author == dict_get(release, "author", JsonObject(NoMembers))
                      fields == description_fields(dict_get(release, "body", JStr(<<>>)))
                  IN  IF fields.raised \/ ~IsDict(author) THEN Raised
                      ELSE Embed(<<"Release ">> \o str_title(action.s),
                                 Bold(py_str(dict_get(release, "name",
                                          dict_get(release, "tag_name",
                                                   JStr(<<"No title">>))))),
                                 16761095, "Patchy - GitHub Release Event",
                                 text_get(author, "login", <<"Unknown">>),
                                 <<Field("Tag",
                                         JStr(text_get(release, "tag_name", <<"No tag">>))),
                                   Field("Repository",
                                         JStr(repository_link(repository))),
                                   Field("Author",
                                         JStr(text_get(author, "login", <<"Unknown">>)))>>
                                     \o fields.blocks)

\* a branch or tag was created (" Created", "created in", "Created by") or
\* deleted (" Deleted", "deleted from", "Deleted by")
ref_event_embed(payload, done, verb, by, color, footer) ==
    IF ~IsDict(payload) THEN Raised
    ELSE LET ref        == dict_get(payload, "ref", JStr(<<>>))
             ref_type   == dict_get(payload, "ref_type", JStr(<<>>))
             repository == dict_get(payload, "repository", JsonObject(NoMembers))
             sender     == dict_get(payload, "sender", JsonObject(NoMembers))
         IN  IF ~IsStr(ref_type) \/ ~IsDict(repository) \/ ~IsDict(sender)
             THEN Raised
             ELSE Embed(str_title(ref_type.s) \o <<done>>,
                        Bold(py_str(ref)) \o <<" ", verb, " ", BackQuote>>
                            \o text_get(repository, "name", <<"Unknown">>) \o <<BackQuote>>,
                        color, footer,
                        text_get(sender, "login", <<"Unknown">>),
                        <<Field("Repository", JStr(repository_link(repository))),
                          Field(by, JStr(text_get(sender, "login", <<"Unknown">>)))>>)

create_create_embed(payload) ==
    ref_event_embed(payload, " Created", "created in", "Created by", 1548984,
                    "Patchy - GitHub Create Event")

create_delete_embed(payload) ==
    ref_event_embed(payload, " Deleted", "deleted from", "Deleted by", 14431557,
                    "Patchy - GitHub Delete Event")

\* except Exception: return None
OrNone(rendered) == IF rendered = Raised THEN None ELSE rendered

\* mutant: an unsupported event type falls through to the push renderer
create_event_embed_fallthrough(event_type, payload) ==
    OrNone(create_push_embed(payload))

\* mutant: no try around the renderers
create_event_embed_uncaught(event_type, payload) ==
    CASE event_type = "push" -> create_push_embed(payload)
      [] event_type = "pull_request" -> create_pull_request_embed(payload)
      [] event_type = "issues" -> create_issue_embed(payload)
      [] event_type = "release" -> create_release_embed(payload)
      [] event_type = "create" -> create_create_embed(payload)
      [] event_type = "delete" -> create_delete_embed(payload)
      [] OTHER -> None

\* webhook_server.py
create_event_embed(event_type, payload) ==
    CASE event_type = "push" -> OrNone(create_push_embed(payload))
      [] event_type = "pull_request" -> OrNone(create_pull_request_embed(payload))
      [] event_type = "issues" -> OrNone(create_issue_embed(payload))
      [] event_type = "release" -> OrNone(create_release_embed(payload))
      [] event_type = "create" -> OrNone(create_create_embed(payload))
      [] event_type = "delete" -> OrNone(create_delete_embed(payload))
      [] OTHER -> None

\* mutant: the serverless renderer with the six event types of the server
api_create_event_embed_six(event_type, payload) ==
    create_event_embed(event_type, payload)

\* api/webhook.py: four event types only
api_create_event_embed(event_type, payload) ==
    CASE event_type = "push" -> OrNone(create_push_embed(payload))
      [] event_type = "pull_request" -> OrNone(create_pull_request_embed(payload))
      [] event_type = "issues" -> OrNone(create_issue_embed(payload))
      [] event_type = "release" -> OrNone(create_release_embed(payload))
      [] OTHER -> None

(***************************************************************************)
(* Requests.                                                               *)
(***************************************************************************)
MaxRequests == 2

Requests == 1..MaxRequests

\* the secret GitHub was given, and one it was not given
GoodSecret == <<"k">>

OtherSecret == <<"j">>

Bodies == { <<"{", RefMember, "}">>,   \* a push-shaped object
            <<"[", "]">>,              \* valid JSON, not an object
            <<"{">>,                   \* malformed JSON
            <<BadByte>> }              \* not UTF-8

EventTypes == {"push", "create", "ping"}

\* X-Hub-Signature-256 as sent: signed with either secret, or missing ("")
SignatureHeaders(body) ==
    { generate_github_signature(body, GoodSecret),
      generate_github_signature(body, OtherSecret),
      <<>> }

\* the requests sent: a push with every body under every signature header, every
\* event type with the object body under every header, every event type with
\* the list body under the right signature, and a second body that is not
\* UTF-8 under the right signature
RequestInputs ==
    UNION {{<<b, h, "push">> : h \in SignatureHeaders(b)} : b \in Bodies}
    \cup {<<<<OtherBadByte>>, generate_github_signature(<<OtherBadByte>>, GoodSecret),
            "push">>}
    \cup {<<<<"{", RefMember, "}">>, h, e>> :
             h \in SignatureHeaders(<<"{", RefMember, "}">>), e \in EventTypes}
    \cup {<<<<"[", "]">>, generate_github_signature(<<"[", "]">>, GoodSecret), e>> :
             e \in EventTypes}

IdleRequest ==
    [pc |-> "idle", body |-> <<>>, signature |-> <<>>, event_type |-> "",
     stages |-> <<>>, status |-> 0, message |-> "", embed |-> None,
     bot |-> 0, sent |-> "no", dispatches |-> 0, calls |-> 0,
     returned |-> "none"]

\* requests are numbered in their order of arrival: r is the next one
Arrives(r) ==
    /\ reqs[r].pc = "idle"
    /\ \A o \in Requests : o < r => reqs[o].pc # "idle"

\* the HTTP response is written and the handler returns
Respond(q, code, msg, pc) == [q EXCEPT !.status = code, !.message = msg, !.pc = pc]

SendOutcomes == {"ok", "forbidden", "http_error", "error"}

SendCall(r, kind, bot, embed) ==
    [req |-> r, kind |-> kind, bot |-> bot, embed |-> embed]

(***************************************************************************)
(* Startup and the bot (main.py, config.py, discord_bot.py).               *)
(***************************************************************************)
\* GitHubNotificationBot(): no channel yet, and no task that runs its start
NewBot == [target_channel |-> FALSE, ready |-> FALSE, closed |-> FALSE,
           task |-> "none"]

\* the bot start_bot constructs: bot_task runs its start()
StartedBot == [NewBot EXCEPT !.task = "running"]

\* start_bot is called once, before anything else constructs a bot
BotTaskBot == 1

DigitVal(c) == (CHOOSE i \in 1..10 : Digits[i] = c) - 1

RECURSIVE IntOf(_)
IntOf(s) == IF s = <<>> THEN 0
            ELSE 10 * IntOf(SubSeq(s, 1, Len(s) - 1)) + DigitVal(s[Len(s)])

\* config.py: int(os.getenv("DISCORD_CHANNEL_ID", "0")), 0 on ValueError
get_discord_channel_id(e) ==
    LET s == getenv(e.DISCORD_CHANNEL_ID, <<"0">>)
    IN  IF s # <<>> /\ \A i \in 1..Len(s) : \E d \in 1..10 : Digits[d] = s[i]
        THEN IntOf(s) ELSE 0

\* mutant: the webhook secret is not among the required values
config_validate_nosecret(e) ==
    /\ getenv(e.DISCORD_TOKEN, <<>>) # <<>>
    /\ get_discord_channel_id(e) # 0

\* config.py Config.validate: TRUE when it returns, FALSE when it raises
config_validate(e) ==
    /\ getenv(e.DISCORD_TOKEN, <<>>) # <<>>
    /\ get_discord_channel_id(e) # 0
    /\ config_GITHUB_WEBHOOK_SECRET(e) # <<>>

\* Loading the modules: config.py calls get_discord_channel_id in the class
\* body, where the name is still a classmethod object, and main.py imports a
\* name config.py does not define; either raise ends the process with a
\* traceback.  The steps below are the program once its modules have loaded.
import_raises ==
    /\ deploy = "main"
    /\ phase = "boot"
    /\ phase' = "crashed"
    /\ UNCHANGED <<env, deploy, bot_instance, bots, reqs, sendCalls, vf, rd>>

\* mutant: a configuration that fails the validation is logged and served
lifespan_serves_anyway(valid) == TRUE

\* lifespan: an exception of config.validate() ends in sys.exit(1), before
\* the yield
lifespan_serves(valid) == valid

\* main.py lifespan, up to the yield: validate, create the bot task, serve
Startup ==
    /\ deploy = "main"
    /\ phase = "boot"
    /\ IF lifespan_serves(config_validate(env))
       THEN /\ bots' = Append(bots, StartedBot)
            /\ bot_instance' = Len(bots) + 1
            /\ phase' = "serving"
       ELSE /\ phase' = "exited"
            /\ UNCHANGED <<bots, bot_instance>>
    /\ UNCHANGED <<env, deploy, reqs, sendCalls, vf, rd>>

\* start_bot: bot.start raises before the bot is ready (LoginFailure for an
\* invalid token, or any other exception); start_bot logs and re-raises, so
\* bot_task ends with the exception, which nothing awaits before shutdown
start_bot_fails ==
    /\ deploy = "main"
    /\ phase = "serving"
    /\ bots[BotTaskBot].task = "running"
    /\ ~bots[BotTaskBot].ready
    /\ bots' = [bots EXCEPT ![BotTaskBot].task = "failed"]
    /\ UNCHANGED <<env, deploy, phase, bot_instance, reqs, sendCalls, vf, rd>>

\* mutant: the channel counts as set once the bot is ready
on_ready_target_channel_always(found) == TRUE

\* on_ready: self.target_channel = self.get_channel(config.DISCORD_CHANNEL_ID)
on_ready_target_channel(found) == found

\* discord_bot.py on_ready, called on the bot whose start() is running: look
\* the channel up, greet it when found
OnReady(found) ==
    /\ deploy = "main"
    /\ phase \in {"serving", "farewell"}
    /\ bots # <<>>
    /\ bots[BotTaskBot].task = "running"
    /\ ~bots[BotTaskBot].ready
    /\ ~bots[BotTaskBot].closed
    /\ bots' = [bots EXCEPT ![BotTaskBot].ready = TRUE,
                            ![BotTaskBot].target_channel =
                                on_ready_target_channel(found)]
    /\ sendCalls' = IF found
                    THEN sendCalls \cup {SendCall(0, "startup", BotTaskBot, None)}
                    ELSE sendCalls
    /\ UNCHANGED <<env, deploy, phase, bot_instance, reqs, vf, rd>>

\* mutant: the farewell is sent whether or not the channel is set
close_says_farewell_always(bot) == TRUE

\* GitHubNotificationBot.close: if self.target_channel is not None
close_says_farewell(bot) == bot.target_channel

\* main.py lifespan after the yield calls stop_bot, which does nothing when
\* bot_instance is None and else calls close(): with the channel set, close
\* awaits the farewell send; without it, it closes the connection at once,
\* and stop_bot clears bot_instance.
Shutdown ==
    /\ deploy = "main"
    /\ phase = "serving"
    /\ IF bot_instance = 0
       THEN /\ phase' = "bot_stopped"
            /\ UNCHANGED <<bots, sendCalls, bot_instance>>
       ELSE IF close_says_farewell(bots[bot_instance])
       THEN /\ phase' = "farewell"
            /\ sendCalls' =
                   sendCalls \cup {SendCall(0, "farewell", bot_instance, None)}
            /\ UNCHANGED <<bots, bot_instance>>
       ELSE /\ phase' = "bot_stopped"
            /\ bots' = [bots EXCEPT ![bot_instance].closed = TRUE]
            /\ bot_instance' = 0
            /\ UNCHANGED sendCalls
    /\ UNCHANGED <<env, deploy, reqs, vf, rd>>

\* mutant: a failed farewell leaves close() with the exception
farewell_caught_never(outcome) == outcome = "ok"

\* close: except Exception around the farewell send
farewell_caught(outcome) == outcome \in SendOutcomes

\* the farewell send returns or raises; close() goes on to close the
\* connection and stop_bot clears bot_instance.  An exception that left
\* close() would leave stop_bot too, before bot_instance = None.
farewell_returns(outcome) ==
    /\ deploy = "main"
    /\ phase = "farewell"
    /\ phase' = "bot_stopped"
    /\ IF farewell_caught(outcome)
       THEN /\ bots' = [bots EXCEPT ![bot_instance].closed = TRUE]
            /\ bot_instance' = 0
       ELSE UNCHANGED <<bots, bot_instance>>
    /\ UNCHANGED <<env, deploy, reqs, sendCalls, vf, rd>>

\* mutant: no except Exception around the shutdown steps
shutdown_escapes_uncaught(task) == task = "failed"

\* lifespan: bot_task.cancel(); await bot_task inside except CancelledError:
\* pass, all inside except Exception, which logs.  The exception of a failed
\* task is an Exception; nothing leaves the shutdown.
shutdown_escapes(task) == FALSE

\* bot_task after stop_bot: start() of the closed bot has returned or not
\* yet; cancel() ends a task that still runs, and await bot_task then raises
\* CancelledError, which is passed over.  A task that failed keeps its
\* exception, which await bot_task raises again.
lifespan_cancels_bot_task(finished) ==
    /\ deploy = "main"
    /\ phase = "bot_stopped"
    /\ phase' = IF shutdown_escapes(bots[BotTaskBot].task) THEN "aborted"
                ELSE "stopped"
    /\ bots' = [bots EXCEPT ![BotTaskBot].task =
                    IF @ = "running"
                    THEN (IF finished THEN "finished" ELSE "cancelled")
                    ELSE @]
    /\ UNCHANGED <<env, deploy, bot_instance, reqs, sendCalls, vf, rd>>

(***************************************************************************)
(* 4.4 Ingestion Endpoint (webhook_server.py).                             *)
(* A handler runs without suspension from the moment the body is read to   *)
(* its return, and the background task from its start to the awaited send: *)
(* each is one step.  stages lists the stages the request has entered.     *)
(***************************************************************************)
\* RECEIVED: the body and the two headers as read
Received(body, signature, event_type) ==
    [IdleRequest EXCEPT !.body = body, !.signature = signature,
                        !.event_type = event_type, !.stages = <<"RECEIVED">>]

Enter(q, stage) == [q EXCEPT !.stages = Append(@, stage)]

\* mutant: the verdict of the verifier is ignored
github_webhook_handle_unchecked(q) ==
    LET v == Enter(q, "VERIFIED")
        p == Enter(v, "PARSED")
    IN  IF ~utf8_decodes(q.body)
        THEN Respond(p, 500, "Internal server error", "done")
        ELSE IF ~json_loads(q.body).ok
        THEN Respond(p, 400, "Invalid JSON payload", "done")
        ELSE Respond(p, 200, "Event received and queued for processing", "queued")

\* mutant: the body is decoded before the signature is looked at
github_webhook_handle_parsefirst(q) ==
    LET p == Enter(q, "PARSED")
        v == Enter(p, "VERIFIED")
    IN  IF ~utf8_decodes(q.body)
        THEN Respond(p, 500, "Internal server error", "done")
        ELSE IF ~json_loads(q.body).ok
        THEN Respond(p, 400, "Invalid JSON payload", "done")
        ELSE IF ~verify_github_signature(q.body, q.signature,
                                         config_GITHUB_WEBHOOK_SECRET(env))
        THEN Respond(v, 401, "Invalid signature", "done")
        ELSE Respond(v, 200, "Event received and queued for processing", "queued")

\* mutant: the handler awaits the processing instead of queueing it, so the
\* response is written only after the task
github_webhook_handle_awaiting(q) ==
    LET v == Enter(q, "VERIFIED")
        p == Enter(v, "PARSED")
    IN  IF ~verify_github_signature(q.body, q.signature,
                                    config_GITHUB_WEBHOOK_SECRET(env))
        THEN Respond(v, 401, "Invalid signature", "done")
        ELSE IF ~utf8_decodes(q.body)
        THEN Respond(p, 500, "Internal server error", "done")
        ELSE IF ~json_loads(q.body).ok
        THEN Respond(p, 400, "Invalid JSON payload", "done")
        ELSE [p EXCEPT !.pc = "queued"]

\* github_webhook from the verification to the return.  UnicodeDecodeError is
\* no JSONDecodeError: it reaches the outer except Exception, which answers 500.
github_webhook_handle(q) ==
    LET v == Enter(q, "VERIFIED")
        p == Enter(v, "PARSED")
    IN  IF ~verify_github_signature(q.body, q.signature,
                                    config_GITHUB_WEBHOOK_SECRET(env))
        THEN Respond(v, 401, "Invalid signature", "done")
        ELSE IF ~utf8_decodes(q.body)
        THEN Respond(p, 500, "Internal server error", "done")
        ELSE IF ~json_loads(q.body).ok
        THEN Respond(p, 400, "Invalid JSON payload", "done")
        ELSE Respond(p, 200, "Event received and queued for processing", "queued")

\* POST /webhook
github_webhook(r, body, signature, event_type) ==
    /\ deploy = "main"
    /\ phase = "serving"
    /\ Arrives(r)
    /\ reqs' = [reqs EXCEPT ![r] =
                   github_webhook_handle(Received(body, signature, event_type))]
    /\ UNCHANGED <<env, deploy, phase, bot_instance, bots, sendCalls, vf, rd>>

\* mutant: a request is skipped when the same delivery was dispatched before
wants_dispatch_deduplicating(r, embed) ==
    /\ embed # None
    /\ ~\E o \in Requests \ {r} :
           /\ reqs[o].dispatches > 0
           /\ reqs[o].body = reqs[r].body
           /\ reqs[o].event_type = reqs[r].event_type

\* process_github_event: if embed
wants_dispatch(r, embed) == embed # None

\* mutant: the send is attempted whether or not the channel is set
send_github_notification_refuses_never(bot) == FALSE

\* send_github_notification: if self.target_channel is None: return False
send_github_notification_refuses(bot) == ~bot.target_channel

\* mutant: every call constructs a bot and makes it the process-wide one
get_bot_creates_always(instance) == TRUE

\* get_bot: if bot_instance is None: bot_instance = GitHubNotificationBot()
get_bot_creates(instance) == instance = 0

\* mutant: the task reads the payload of the request that arrived last
task_payload_latest(r) ==
    LET latest == CHOOSE o \in Requests :
                      /\ reqs[o].pc # "idle"
                      /\ \A n \in Requests : reqs[n].pc # "idle" => n <= o
    IN  json_loads(reqs[latest].body).value

\* github_webhook: background_tasks.add_task(process_github_event,
\* event_type, payload), the payload being the value decoded from the body of
\* this request
task_payload(r) == json_loads(reqs[r].body).value

\* the background task: get_bot (which constructs a bot when bot_instance is
\* None), create_event_embed, send_github_notification up to the awaited send.
\* The except branch runs when an exception reaches it: create_event_embed is
\* the one callee whose result can stand for one, and send_error_notification
\* then sends when the channel is set.
process_github_event(r) ==
    /\ deploy = "main"
    /\ reqs[r].pc = "queued"
    /\ LET created == get_bot_creates(bot_instance)
           bot     == IF created THEN Len(bots) + 1 ELSE bot_instance
           allBots == IF created THEN Append(bots, NewBot) ELSE bots
           embed   == create_event_embed(reqs[r].event_type, task_payload(r))
           q       == [Enter(reqs[r], "RENDERED") EXCEPT !.embed = embed, !.bot = bot]
       IN  /\ bots' = allBots
           /\ bot_instance' = bot
           /\ IF embed = Raised
              THEN /\ reqs' = [reqs EXCEPT ![r] = [q EXCEPT !.pc = "done"]]
                   /\ sendCalls' = IF allBots[bot].target_channel
                                   THEN sendCalls \cup {SendCall(r, "error", bot, None)}
                                   ELSE sendCalls
              ELSE IF ~wants_dispatch(r, embed)
              THEN /\ reqs' = [reqs EXCEPT ![r] = [q EXCEPT !.pc = "done"]]
                   /\ UNCHANGED sendCalls
              ELSE IF send_github_notification_refuses(allBots[bot])
              THEN /\ reqs' = [reqs EXCEPT ![r] =
                          [Enter(q, "DISPATCHED") EXCEPT !.pc = "done",
                                                         !.sent = "no_channel",
                                                         !.dispatches = @ + 1,
                                                         !.returned = "false"]]
                   /\ UNCHANGED sendCalls
              ELSE /\ reqs' = [reqs EXCEPT ![r] =
                          [Enter(q, "DISPATCHED") EXCEPT !.pc = "sending",
                                                         !.dispatches = @ + 1,
                                                         !.calls = @ + 1]]
                   /\ sendCalls' = sendCalls \cup {SendCall(r, "event", bot, embed)}
    /\ UNCHANGED <<env, deploy, phase, vf, rd>>

\* mutant: a failed send is reported to the HTTP caller
send_returns_reporting(r, outcome) ==
    /\ deploy = "main"
    /\ reqs[r].pc = "sending"
    /\ outcome = "ok" => ~bots[reqs[r].bot].closed
    /\ reqs' = [reqs EXCEPT ![r] =
           IF outcome = "ok"
           THEN [@ EXCEPT !.pc = "done", !.sent = outcome, !.returned = "true"]
           ELSE Respond([@ EXCEPT !.sent = outcome, !.returned = "false"], 500,
                        "Internal server error", "done")]
    /\ UNCHANGED <<env, deploy, phase, bot_instance, bots, sendCalls, vf, rd>>

\* mutant: a failed send is tried once more
send_returns_retrying(r, outcome) ==
    /\ deploy = "main"
    /\ reqs[r].pc = "sending"
    /\ outcome = "ok" => ~bots[reqs[r].bot].closed
    /\ reqs' = [reqs EXCEPT ![r] =
           IF outcome # "ok" /\ @.calls < 2
           THEN [@ EXCEPT !.calls = @ + 1]
           ELSE [@ EXCEPT !.pc = "done", !.sent = outcome,
                          !.returned = IF outcome = "ok" THEN "true" ELSE "false"]]
    /\ UNCHANGED <<env, deploy, phase, bot_instance, bots, sendCalls, vf, rd>>

\* discord_bot.py send_github_notification: the send returns or raises; every
\* exception class ends in return False, which the task only logs
send_returns(r, outcome) ==
    /\ deploy = "main"
    /\ reqs[r].pc = "sending"
    /\ outcome = "ok" => ~bots[reqs[r].bot].closed
    /\ reqs' = [reqs EXCEPT ![r].pc = "done", ![r].sent = outcome,
                            ![r].returned = IF outcome = "ok" THEN "true" ELSE "false"]
    /\ UNCHANGED <<env, deploy, phase, bot_instance, bots, sendCalls, vf, rd>>

(***************************************************************************)
(* The serverless handler (api/webhook.py): do_POST blocks in asyncio.run  *)
(* until the POST to the chat API has returned.                            *)
(***************************************************************************)
\* mutant: the skipped event is answered with the body of a processed one
do_POST_handle_samebody(q) ==
    LET v == Enter(q, "VERIFIED")
        p == Enter(v, "PARSED")
        embed == api_create_event_embed(q.event_type, json_loads(q.body).value)
        n == [Enter(p, "RENDERED") EXCEPT !.embed = embed]
    IN  IF ~api_verify_github_signature(q.body, q.signature, env)
        THEN Respond(v, 401, "Invalid signature", "done")
        ELSE IF ~utf8_decodes(q.body)
        THEN Respond(p, 500, unicode_error_str(q.body), "done")
        ELSE IF ~json_loads(q.body).ok
        THEN Respond(p, 400, "Invalid JSON payload", "done")
        ELSE IF embed = None
        THEN Respond(n, 200, "Event processed successfully", "done")
        ELSE IF ~(Truthy(env.DISCORD_TOKEN) /\ Truthy(env.DISCORD_CHANNEL_ID))
        THEN Respond([Enter(n, "DISPATCHED") EXCEPT !.sent = "no_channel",
                                                    !.dispatches = @ + 1,
                                                    !.returned = "false"], 500,
                     "Failed to send Discord notification", "done")
        ELSE [Enter(n, "DISPATCHED") EXCEPT !.pc = "sending", !.dispatches = @ + 1,
                                            !.calls = @ + 1]

\* do_POST from the verification to the awaited POST of send_discord_message,
\* or to its response when it does not get that far.  UnicodeDecodeError
\* reaches the outer except Exception, which answers 500 with str(e).
do_POST_handle(q) ==
    LET v == Enter(q, "VERIFIED")
        p == Enter(v, "PARSED")
        embed == api_create_event_embed(q.event_type, json_loads(q.body).value)
        n == [Enter(p, "RENDERED") EXCEPT !.embed = embed]
    IN  IF ~api_verify_github_signature(q.body, q.signature, env)
        THEN Respond(v, 401, "Invalid signature", "done")
        ELSE IF ~utf8_decodes(q.body)
        THEN Respond(p, 500, unicode_error_str(q.body), "done")
        ELSE IF ~json_loads(q.body).ok
        THEN Respond(p, 400, "Invalid JSON payload", "done")
        ELSE IF embed = None
        THEN Respond(n, 200, "Event received but not processed", "done")
        ELSE IF ~(Truthy(env.DISCORD_TOKEN) /\ Truthy(env.DISCORD_CHANNEL_ID))
        THEN Respond([Enter(n, "DISPATCHED") EXCEPT !.sent = "no_channel",
                                                    !.dispatches = @ + 1,
                                                    !.returned = "false"], 500,
                     "Failed to send Discord notification", "done")
        ELSE [Enter(n, "DISPATCHED") EXCEPT !.pc = "sending", !.dispatches = @ + 1,
                                            !.calls = @ + 1]

\* POST /webhook
do_POST(r, body, signature, event_type) ==
    /\ deploy = "serverless"
    /\ phase = "serving"
    /\ Arrives(r)
    /\ LET q == do_POST_handle(Received(body, signature, event_type))
       IN  /\ reqs' = [reqs EXCEPT ![r] = q]
           /\ sendCalls' = IF q.pc = "sending"
                           THEN sendCalls \cup {SendCall(r, "event", 0, q.embed)}
                           ELSE sendCalls
    /\ UNCHANGED <<env, deploy, phase, bot_instance, bots, vf, rd>>

\* the POST returns (status 200 or not) or raises, and do_POST answers
do_POST_respond(r, outcome) ==
    /\ deploy = "serverless"
    /\ reqs[r].pc = "sending"
    /\ reqs' = [reqs EXCEPT ![r] =
           IF outcome = "ok"
           THEN Respond([@ EXCEPT !.sent = outcome, !.returned = "true"], 200,
                        "Event processed successfully", "done")
           ELSE Respond([@ EXCEPT !.sent = outcome, !.returned = "false"], 500,
                        "Failed to send Discord notification", "done")]
    /\ UNCHANGED <<env, deploy, phase, bot_instance, bots, sendCalls, vf, rd>>

(***************************************************************************)
(* The verifier on its own: one input is drawn, then verified.             *)
(***************************************************************************)
Secrets == SeqsUpTo({"k", "j"}, MaxSecretLen)

Payloads == SeqsUpTo({"{", "}", BadByte}, MaxPayloadLen)

\* well-formed, without the prefix, with another prefix, missing, prefix only
Headers(payload, signer) ==
    { generate_github_signature(payload, signer),
      hmac_hexdigest(signer, payload),
      Sha1Prefix \o hmac_hexdigest(signer, payload),
      <<>>,
      Sha256Prefix }

VfIdle == [pc |-> "idle", impl |-> "", payload |-> <<>>, signer |-> <<>>,
           secret |-> Unset, header |-> <<>>, result |-> FALSE]

VfEnv == [GITHUB_WEBHOOK_SECRET |-> vf.secret]

verify_server ==
    /\ vf.pc = "drawn"
    /\ vf.impl = "server"
    /\ vf' = [vf EXCEPT !.pc = "done",
                 !.result = verify_github_signature(
                     vf.payload, vf.header, config_GITHUB_WEBHOOK_SECRET(VfEnv))]
    /\ UNCHANGED <<pipeVars, rd>>

verify_api ==
    /\ vf.pc = "drawn"
    /\ vf.impl = "api"
    /\ vf' = [vf EXCEPT !.pc = "done",
                 !.result = api_verify_github_signature(
                     vf.payload, vf.header, VfEnv)]
    /\ UNCHANGED <<pipeVars, rd>>

(***************************************************************************)
(* The renderer on its own: one event type and payload are drawn, then     *)
(* rendered.                                                               *)
(***************************************************************************)
MaxOver == 100

MaxLabels == 8

TextChars == <<"a", "b", "c">>

\* a text of n characters
Text(n) == [i \in 1..n |-> TextChars[((i - 1) % 3) + 1]]

\* lengths around a cap
Lengths(cap) == {0, 1, cap - 1, cap, cap + 1, cap + MaxOver}

Label(i) == JsonObject([name |-> JStr(<<"L", Digits[i]>>)])

LabelList(n) == JsonList([i \in 1..n |-> Label(i)])

\* the body member of a pull request or release: texts around the cap, null
\* (a pull request without description), a number, a list
\* a text of n characters in which a backslash at position at escapes the
\* star that follows it
EscapedText(n, at) ==
    [i \in 1..n |-> IF i = at THEN "\\" ELSE IF i = at + 1 THEN "*"
                     ELSE TextChars[((i - 1) % 3) + 1]]

\* over-long texts with an escaped star across the cut, and just before it
EscapedTexts(cap, keep) ==
    {EscapedText(cap + 1, keep), EscapedText(cap + 1, keep - 1)}

BodyValues ==
    {JStr(Text(n)) : n \in Lengths(DescriptionCap)}
    \cup {JStr(t) : t \in EscapedTexts(DescriptionCap, DescriptionKeep)}
    \cup {JNull, JNum(7), JsonList(<<JNum(1)>>)}

PullRequestPayloads ==
    {JsonObject([pull_request |-> JsonObject([body |-> b]),
                 action |-> JStr(<<"opened">>)]) : b \in BodyValues}
    \cup {JsonObject([pull_request |-> JsonObject(NoMembers)])}

ReleasePayloads ==
    {JsonObject([release |-> JsonObject([body |-> b])]) : b \in BodyValues}

\* label lists of every length, then lists that are no list of named labels:
\* null, a string, a bare string as item, a number as name, and a list whose
\* sixth entry alone is misshapen
LabelValues ==
    {LabelList(n) : n \in 0..MaxLabels}
    \cup {JNull, JStr(<<"bug">>), JsonList(<<JStr(<<"bug">>)>>),
          JsonList(<<Label(1), JsonObject([name |-> JNum(2)])>>),
          JsonList(LabelList(LabelsShown).items \o <<JNum(6)>>)}

IssuePayloads ==
    {JsonObject([issue |-> JsonObject([labels |-> l]),
                 action |-> JStr(<<"closed">>)]) : l \in LabelValues}

Commit(message) == JsonObject([message |-> message])

CommitValues ==
    {JsonList(<<Commit(JStr(Text(n)))>>) : n \in Lengths(CommitCap)}
    \cup {JsonList(<<Commit(JStr(t))>>) : t \in EscapedTexts(CommitCap, CommitKeep)}
    \cup {JsonList(<<>>), JNull, JNum(3), JsonList(<<Commit(JNum(5))>>),
          JsonList(<<JStr(<<"c">>)>>),
          JsonList(<<Commit(JStr(Text(CommitCap + 1))), Commit(JStr(Text(1)))>>)}

\* ref: a branch, a branch whose name holds "refs/heads/" again, a tag, a
\* name with the chunk in the middle only, the empty string
RefValues ==
    {<<"refs/heads/", "main">>,
     <<"refs/heads/", "a/", "refs/heads/", "b">>,
     <<"refs/heads/", "refs/heads/", "x">>,
     <<"refs/tags/", "v1">>,
     <<"x/", "refs/heads/", "y">>,
     <<>>}

PushPayloads ==
    {JsonObject([ref |-> JStr(<<"refs/heads/", "main">>), commits |-> c]) :
        c \in CommitValues}
    \cup {JsonObject([ref |-> JStr(ref)]) : ref \in RefValues}

\* values that are no event payload at all, and an object whose members have
\* the wrong types
MisshapenPayloads ==
    {JsonList(<<>>), JStr(<<"x">>), JNull, JNum(0),
     JsonObject([pull_request |-> JStr(<<"x">>), issue |-> JNull,
                 release |-> JNum(1), action |-> JNum(5), ref |-> JNum(1)])}

RenderPayloads ==
    PullRequestPayloads \cup ReleasePayloads \cup IssuePayloads
        \cup PushPayloads \cup MisshapenPayloads \cup {JsonObject(NoMembers)}

\* X-GitHub-Event as read: "" when the header is missing
RenderEventTypes ==
    {"push", "pull_request", "issues", "release", "create", "delete", "ping", ""}

\* the payload without the members named absent, at every depth
RECURSIVE Prune(_, _)
Prune(v, absent) ==
    IF v.t = "obj"
    THEN JsonObject([k \in DOMAIN v.m \ absent |-> Prune(v.m[k], absent)])
    ELSE IF v.t = "list"
    THEN JsonList([i \in 1..Len(v.items) |-> Prune(v.items[i], absent)])
    ELSE v

FullRepository ==
    JsonObject([name |-> JStr(<<"r">>), full_name |-> JStr(<<"o/r">>),
                html_url |-> JStr(<<"u">>)])

\* a payload with every member its renderer reads
FullPayload(event_type) ==
    CASE event_type = "push" ->
           JsonObject([repository |-> FullRepository,
                       pusher |-> JsonObject([name |-> JStr(<<"p">>)]),
                       commits |-> JsonList(<<JsonObject([message |-> JStr(<<"m">>),
                                                          url |-> JStr(<<"c">>)])>>),
                       ref |-> JStr(<<"refs/heads/", "main">>)])
      [] event_type = "pull_request" ->
           JsonObject([pull_request |->
                           JsonObject([title |-> JStr(<<"t">>), number |-> JNum(17),
                                       state |-> JStr(<<"open">>),
                                       user |-> JsonObject([login |-> JStr(<<"a">>)]),
                                       body |-> JStr(<<"b">>)]),
                       action |-> JStr(<<"opened">>),
                       repository |-> JsonObject([full_name |-> JStr(<<"o/r">>)])])
      [] event_type = "issues" ->
           JsonObject([issue |->
                           JsonObject([number |-> JNum(4),
                                       state |-> JStr(<<"open">>),
                                       user |-> JsonObject([login |-> JStr(<<"a">>)]),
                                       labels |-> JsonList(<<
                                           JsonObject([name |-> JStr(<<"bug">>)]),
                                           JsonObject([name |-> JStr(<<"ui">>)])>>)]),
                       action |-> JStr(<<"opened">>),
                       repository |-> JsonObject([html_url |-> JStr(<<"u">>)])])
      [] event_type = "release" ->
           JsonObject([release |->
                           JsonObject([name |-> JStr(<<"n">>),
                                       tag_name |-> JStr(<<"v1">>),
                                       author |-> JsonObject([login |-> JStr(<<"a">>)]),
                                       body |-> JStr(<<"b">>)]),
                       action |-> JStr(<<"published">>),
                       repository |-> JsonObject([full_name |-> JStr(<<"o/r">>),
                                                  html_url |-> JStr(<<"u">>)])])
      [] OTHER ->
           JsonObject([ref |-> JStr(<<"dev">>), ref_type |-> JStr(<<"branch">>),
                       repository |-> FullRepository,
                       sender |-> JsonObject([login |-> JStr(<<"a">>)])])

\* the member names of a value, at every depth
RECURSIVE Keys(_)
Keys(v) ==
    IF v.t = "obj" THEN DOMAIN v.m \cup UNION {Keys(v.m[k]) : k \in DOMAIN v.m}
    ELSE IF v.t = "list" THEN UNION {Keys(v.items[i]) : i \in 1..Len(v.items)}
    ELSE {}

\* the full payload with every subset of its member names absent
SparsePayloads(event_type) ==
    {Prune(FullPayload(event_type), absent) :
        absent \in SUBSET Keys(FullPayload(event_type))}

\* the event types each renderer has a branch for
RenderedTypes(impl) ==
    IF impl = "server"
    THEN {"push", "pull_request", "issues", "release", "create", "delete"}
    ELSE {"push", "pull_request", "issues", "release"}

RdIdle == [pc |-> "idle", impl |-> "", event_type |-> "", payload |-> JNull,
           result |-> None]

render_server ==
    /\ rd.pc = "drawn"
    /\ rd.impl = "server"
    /\ rd' = [rd EXCEPT !.pc = "done",
                 !.result = create_event_embed(rd.event_type, rd.payload)]
    /\ UNCHANGED <<pipeVars, vf>>

render_api ==
    /\ rd.pc = "drawn"
    /\ rd.impl = "api"
    /\ rd' = [rd EXCEPT !.pc = "done",
                 !.result = api_create_event_embed(rd.event_type, rd.payload)]
    /\ UNCHANGED <<pipeVars, vf>>

(***************************************************************************)
(* The error notifier on its own (discord_bot.py send_error_notification): *)
(* rd holds the message, whether the channel is set, and what the call     *)
(* did.                                                                    *)
(***************************************************************************)
ErrorCap == 1000

\* the three backquotes that open and close a code block
CodeFence == <<"<fence>">>

\* the red notification that quotes the first 1000 characters of the message
error_embed(error_message, event_type) ==
    Embed(<<"Webhook Processing Error">>,
          <<"An error occurred while processing a ", event_type, " event:">>,
          16711680, "GitHub Webhook Bot - Error Handler", <<>>,
          <<Field("Error Details",
                  JStr(CodeFence \o Slice(error_message, ErrorCap) \o CodeFence))>>)

\* mutant: only the exception classes of the chat library are caught
error_send_caught_library_only(outcome) ==
    outcome \in {"ok", "forbidden", "http_error"}

\* except Exception around the construction and the send: every outcome of
\* the send ends in a normal return
error_send_caught(outcome) == outcome \in SendOutcomes

ErrorMessages == {Text(n) : n \in Lengths(ErrorCap)}

send_error_notification ==
    /\ rd.pc = "drawn"
    /\ rd.impl = "notify"
    /\ IF ~rd.channel
       THEN rd' = [rd EXCEPT !.pc = "done"]
       ELSE \E outcome \in SendOutcomes :
                rd' = [rd EXCEPT !.pc = "done",
                                 !.result = error_embed(rd.payload.s, rd.event_type),
                                 !.calls = 1,
                                 !.outcome = outcome,
                                 !.raised = ~error_send_caught(outcome)]
    /\ UNCHANGED <<pipeVars, vf>>

InitNotifier ==
    /\ deploy = "none"
    /\ env = [DISCORD_TOKEN |-> Unset, DISCORD_CHANNEL_ID |-> Unset,
              GITHUB_WEBHOOK_SECRET |-> Unset]
    /\ phase = "off"
    /\ bot_instance = 0
    /\ bots = <<>>
    /\ reqs = [r \in Requests |-> IdleRequest]
    /\ sendCalls = {}
    /\ vf = VfIdle
    /\ \E error_message \in ErrorMessages, event_type \in {"push", "Unknown"},
          channel \in BOOLEAN :
         rd = [pc |-> "drawn", impl |-> "notify", event_type |-> event_type,
               payload |-> JStr(error_message), result |-> None,
               channel |-> channel, calls |-> 0, outcome |-> "none",
               raised |-> FALSE]

(***************************************************************************)
(* Specification.                                                          *)
(***************************************************************************)
Envs ==
    [DISCORD_TOKEN : {Unset, EnvVal(<<"t">>)},
     DISCORD_CHANNEL_ID : {Unset, EnvVal(<<"7">>)},
     GITHUB_WEBHOOK_SECRET : {Unset, EnvVal(GoodSecret)}]

\* what the long-running process may be started with: each variable unset,
\* empty or set, the channel identifier also zero or not a number
StartupEnvs ==
    [DISCORD_TOKEN : {Unset, EnvVal(<<>>), EnvVal(<<"t">>)},
     DISCORD_CHANNEL_ID : {Unset, EnvVal(<<>>), EnvVal(<<"0">>), EnvVal(<<"x">>),
                           EnvVal(<<"7">>)},
     GITHUB_WEBHOOK_SECRET : {Unset, EnvVal(<<>>), EnvVal(GoodSecret)}]

InitPipeline ==
    /\ \/ deploy = "main" /\ env \in StartupEnvs
       \/ deploy = "serverless" /\ env \in Envs
    /\ phase = IF deploy = "main" THEN "boot" ELSE "serving"
    /\ bot_instance = 0
    /\ bots = <<>>
    /\ reqs = [r \in Requests |-> IdleRequest]
    /\ sendCalls = {}
    /\ vf = VfIdle
    /\ rd = RdIdle

InitVerifier ==
    /\ deploy = "none"
    /\ env = [DISCORD_TOKEN |-> Unset, DISCORD_CHANNEL_ID |-> Unset,
              GITHUB_WEBHOOK_SECRET |-> Unset]
    /\ phase = "off"
    /\ bot_instance = 0
    /\ bots = <<>>
    /\ reqs = [r \in Requests |-> IdleRequest]
    /\ sendCalls = {}
    /\ \E impl \in {"server", "api"}, payload \in Payloads, signer \in Secrets,
          secret \in {Unset} \cup {EnvVal(s) : s \in Secrets} :
         \E header \in Headers(payload, signer) :
            vf = [pc |-> "drawn", impl |-> impl, payload |-> payload,
                  signer |-> signer, secret |-> secret, header |-> header,
                  result |-> FALSE]
    /\ rd = RdIdle

InitRenderer ==
    /\ deploy = "none"
    /\ env = [DISCORD_TOKEN |-> Unset, DISCORD_CHANNEL_ID |-> Unset,
              GITHUB_WEBHOOK_SECRET |-> Unset]
    /\ phase = "off"
    /\ bot_instance = 0
    /\ bots = <<>>
    /\ reqs = [r \in Requests |-> IdleRequest]
    /\ sendCalls = {}
    /\ vf = VfIdle
    /\ \E impl \in {"server", "api"} :
         \/ \E event_type \in RenderEventTypes, payload \in RenderPayloads :
              rd = [pc |-> "drawn", impl |-> impl, event_type |-> event_type,
                    payload |-> payload, result |-> None]
         \/ \E event_type \in RenderedTypes(impl) :
              \E payload \in SparsePayloads(event_type) :
                 rd = [pc |-> "drawn", impl |-> impl, event_type |-> event_type,
                       payload |-> payload, result |-> None]

Init == InitPipeline \/ InitVerifier \/ InitRenderer \/ InitNotifier

Next ==
    \/ import_raises
    \/ Startup
    \/ \E found \in BOOLEAN : OnReady(found)
    \/ start_bot_fails
    \/ Shutdown
    \/ \E outcome \in SendOutcomes : farewell_returns(outcome)
    \/ \E finished \in BOOLEAN : lifespan_cancels_bot_task(finished)
    \/ \E r \in Requests, i \in RequestInputs : github_webhook(r, i[1], i[2], i[3])
    \/ \E r \in Requests : process_github_event(r)
    \/ \E r \in Requests, outcome \in SendOutcomes : send_returns(r, outcome)
    \/ \E r \in Requests, i \in RequestInputs : do_POST(r, i[1], i[2], i[3])
    \/ \E r \in Requests, outcome \in SendOutcomes : do_POST_respond(r, outcome)
    \/ verify_server
    \/ verify_api
    \/ render_server
    \/ render_api
    \/ send_error_notification

Spec == Init /\ [][Next]_vars

\* The long-running process on its own.  The background task added to a
\* response is run once the response is sent: it is not left waiting forever.
InitServer == InitPipeline /\ deploy = "main"

\* the deliveries of the object body under the right signature, one whose
\* payload renders to nothing, and one that is turned away
ServerInputs ==
    {i \in RequestInputs :
        \/ /\ i[1] = <<"{", RefMember, "}">>
           /\ i[2] = generate_github_signature(i[1], GoodSecret)
        \/ /\ i[3] = "push"
           /\ i[1] = <<"[", "]">>
           /\ i[2] = generate_github_signature(i[1], GoodSecret)
        \/ /\ i[3] = "push"
           /\ i[1] = <<"{", RefMember, "}">>
           /\ i[2] = generate_github_signature(i[1], OtherSecret)}

\* a send that succeeds and one that the chat service refuses
ServerOutcomes == {"ok", "forbidden"}

NextServer ==
    \/ import_raises
    \/ Startup
    \/ \E found \in BOOLEAN : OnReady(found)
    \/ start_bot_fails
    \/ Shutdown
    \/ \E outcome \in ServerOutcomes : farewell_returns(outcome)
    \/ \E finished \in BOOLEAN : lifespan_cancels_bot_task(finished)
    \/ \E r \in Requests, i \in ServerInputs : github_webhook(r, i[1], i[2], i[3])
    \/ \E r \in Requests : process_github_event(r)
    \/ \E r \in Requests, outcome \in ServerOutcomes : send_returns(r, outcome)

FairSpec ==
    /\ InitServer
    /\ [][NextServer]_vars
    /\ WF_vars(\E r \in Requests : process_github_event(r))

(***************************************************************************)
(* Vocabulary of the properties.                                           *)
(***************************************************************************)
\* what the verifier of the running deployment answers for request q
SigAccepted(q) ==
    IF deploy = "main"
    THEN verify_github_signature(q.body, q.signature,
                                 config_GITHUB_WEBHOOK_SECRET(env))
    ELSE api_verify_github_signature(q.body, q.signature, env)

WellFormed(q) == utf8_decodes(q.body) /\ json_loads(q.body).ok

Entered(q, stage) == \E i \in 1..Len(q.stages) : q.stages[i] = stage

\* the verifier has run on the request
PastVerify(q) == Entered(q, "VERIFIED")

\* the body has been decoded, or the decoding has failed
PastParse(q) == Entered(q, "PARSED")

Rendered(q) == Entered(q, "RENDERED")

\* verified and parsed
Accepted(q) == PastParse(q) /\ SigAccepted(q) /\ WellFormed(q)

StageOrder == <<"RECEIVED", "VERIFIED", "PARSED", "RENDERED", "DISPATCHED">>

IsPrefix(s, t) == Len(s) <= Len(t) /\ SubSeq(t, 1, Len(s)) = s

SupportedEvents ==
    IF deploy = "main"
    THEN {"push", "pull_request", "issues", "release", "create", "delete"}
    ELSE {"push", "pull_request", "issues", "release"}

SendsFor(r) == {c \in sendCalls : c.req = r}

\* the secret the verifier on its own runs with
VfSecret == getenv(vf.secret, <<>>)

(***************************************************************************)
(* C1: a request whose signature verification returned false is answered   *)
(* 401; it is never rendered and no send is issued for it.                 *)
(***************************************************************************)
C1_RejectedNeverDispatched ==
    \A r \in Requests :
        (PastVerify(reqs[r]) /\ ~SigAccepted(reqs[r])) =>
            /\ reqs[r].pc = "done"
            /\ reqs[r].status = 401
            /\ ~Rendered(reqs[r])
            /\ ~Entered(reqs[r], "DISPATCHED")
            /\ reqs[r].embed = None
            /\ SendsFor(r) = {}

\* an otherwise valid push, signed with the wrong secret, answered 401
C1_Witness ==
    \E r \in Requests :
        /\ reqs[r].pc = "done"
        /\ reqs[r].event_type = "push"
        /\ WellFormed(reqs[r])
        /\ reqs[r].signature = generate_github_signature(reqs[r].body, OtherSecret)
        /\ ~SigAccepted(reqs[r])
        /\ reqs[r].status = 401

(***************************************************************************)
(* C2 as stated: verify(P, sign(P,S), S) is true and verify(P, sign(P,S),  *)
(* S') is false for every secret S' different from S.                      *)
(***************************************************************************)
C2_AsStated ==
    (vf.pc = "done" /\ vf.header = generate_github_signature(vf.payload, vf.signer)) =>
        /\ VfSecret = vf.signer => vf.result
        /\ VfSecret # vf.signer => ~vf.result

(***************************************************************************)
(* C2 amended: verify(P, sign(P,S), S) is true for every S, and            *)
(* verify(P, sign(P,S), S') is false for every non-empty S' different from *)
(* S; with S' empty or unset verification is disabled and the answer is    *)
(* true.                                                                   *)
(***************************************************************************)
C2_SignVerifyRoundTrip ==
    (vf.pc = "done" /\ vf.header = generate_github_signature(vf.payload, vf.signer)) =>
        /\ VfSecret = vf.signer => vf.result
        /\ (VfSecret # vf.signer /\ VfSecret # <<>>) => ~vf.result
        /\ VfSecret = <<>> => vf.result

\* a header signed with one non-empty secret, refused under another
C2_Witness ==
    /\ vf.pc = "done"
    /\ vf.header = generate_github_signature(vf.payload, vf.signer)
    /\ vf.signer # <<>>
    /\ VfSecret # <<>>
    /\ VfSecret # vf.signer
    /\ vf.payload # <<>>
    /\ ~vf.result

(***************************************************************************)
(* C3 as stated: a header that does not start with "sha256=" is refused    *)
(* whatever the configured secret is.                                      *)
(***************************************************************************)
C3_AsStated ==
    (vf.pc = "done" /\ ~StartsWith(vf.header, Sha256Prefix)) => ~vf.result

(***************************************************************************)
(* C3 amended: a header that does not start with "sha256=" (the empty      *)
(* header of a missing one included) is refused under every non-empty      *)
(* configured secret; under an empty or unset secret it is accepted.       *)
(***************************************************************************)
C3_MissingPrefixRefused ==
    (vf.pc = "done" /\ ~StartsWith(vf.header, Sha256Prefix)) =>
        (vf.result <=> VfSecret = <<>>)

\* the bare digest of the right secret, sent without the prefix, is refused
C3_Witness ==
    /\ vf.pc = "done"
    /\ VfSecret # <<>>
    /\ vf.signer = VfSecret
    /\ vf.header = hmac_hexdigest(vf.signer, vf.payload)
    /\ ~vf.result

(***************************************************************************)
(* C4: with the secret empty or unset, verify answers true for every       *)
(* payload and header, and no request is stopped at VERIFIED.              *)
(***************************************************************************)
C4_EmptySecretAcceptsAll ==
    /\ (vf.pc = "done" /\ VfSecret = <<>>) => vf.result
    /\ ~Truthy(env.GITHUB_WEBHOOK_SECRET) =>
           \A r \in Requests :
               /\ reqs[r].status # 401
               /\ reqs[r].pc = "done" => reqs[r].status \in {200, 400, 500}

\* a request without any signature header is processed to a 200
C4_Witness ==
    \E r \in Requests :
        /\ ~Truthy(env.GITHUB_WEBHOOK_SECRET)
        /\ reqs[r].signature = <<>>
        /\ reqs[r].pc = "done"
        /\ reqs[r].status = 200
        /\ reqs[r].sent = "ok"

(***************************************************************************)
(* C5: a request goes RECEIVED, VERIFIED, PARSED, RENDERED, DISPATCHED in  *)
(* that order, each step to the next stage or to its end, never back and   *)
(* never past a stage; the signature is verified before the body is        *)
(* decoded, so a bad signature on a malformed body is answered 401.        *)
(***************************************************************************)
C5_StagesInOrder ==
    /\ [](\A r \in Requests :
            /\ IsPrefix(reqs[r].stages, StageOrder)
            /\ (PastVerify(reqs[r]) /\ ~SigAccepted(reqs[r])) =>
                   /\ reqs[r].stages = <<"RECEIVED", "VERIFIED">>
                   /\ reqs[r].status = 401
            /\ (PastParse(reqs[r]) /\ ~WellFormed(reqs[r])) =>
                   /\ reqs[r].stages = <<"RECEIVED", "VERIFIED", "PARSED">>
                   /\ SigAccepted(reqs[r])
                   /\ reqs[r].status \in {400, 500}
            /\ reqs[r].status = 400 =>
                   /\ reqs[r].stages = <<"RECEIVED", "VERIFIED", "PARSED">>
                   /\ ~WellFormed(reqs[r]))
    /\ [][\A r \in Requests :
            /\ IsPrefix(reqs[r].stages, reqs'[r].stages)
            /\ reqs[r].pc = "done" => reqs'[r] = reqs[r]]_vars

\* a malformed body under a wrong signature, answered 401
C5_Witness ==
    \E r \in Requests :
        /\ reqs[r].pc = "done"
        /\ reqs[r].body = <<"{">>
        /\ ~SigAccepted(reqs[r])
        /\ reqs[r].status = 401

(***************************************************************************)
(* C6 as stated: a verified request whose body does not decode as JSON,    *)
(* a body that is not UTF-8 included, is answered 400 and is neither       *)
(* rendered nor dispatched.                                                *)
(***************************************************************************)
C6_AsStated ==
    \A r \in Requests :
        (PastParse(reqs[r]) /\ SigAccepted(reqs[r]) /\ ~WellFormed(reqs[r])) =>
            /\ reqs[r].pc = "done"
            /\ reqs[r].status = 400
            /\ ~Rendered(reqs[r])
            /\ SendsFor(r) = {}

(***************************************************************************)
(* C7: a verified, well-formed request whose event type is not supported   *)
(* gets no notification from the renderer, is answered 200, and no send is *)
(* issued for it.                                                          *)
(***************************************************************************)
C7_UnsupportedEventIs200 ==
    \A r \in Requests :
        (Accepted(reqs[r]) /\ reqs[r].event_type \notin SupportedEvents) =>
            /\ reqs[r].embed = None
            /\ ~Entered(reqs[r], "DISPATCHED")
            /\ reqs[r].pc # "sending"
            /\ SendsFor(r) = {}
            /\ reqs[r].status = 200
            /\ reqs[r].pc = "done" => Rendered(reqs[r])

\* a signed ping, rendered to nothing and answered 200
C7_Witness ==
    \E r \in Requests :
        /\ deploy = "main"
        /\ Accepted(reqs[r])
        /\ reqs[r].event_type = "ping"
        /\ reqs[r].pc = "done"
        /\ Rendered(reqs[r])
        /\ reqs[r].status = 200

(***************************************************************************)
(* C8 as stated: when the renderer returns null the 200 body says the      *)
(* event was received but not processed.                                   *)
(***************************************************************************)
C8_AsStated ==
    \A r \in Requests :
        (Accepted(reqs[r]) /\ Rendered(reqs[r]) /\ reqs[r].embed = None) =>
            /\ reqs[r].status = 200
            /\ reqs[r].message = "Event received but not processed"

(***************************************************************************)
(* C8 amended: in the serverless handler a null rendering is answered 200  *)
(* with "Event received but not processed", a body no dispatched event     *)
(* gets; the FastAPI endpoint answers before rendering, so its 200 body is *)
(* "Event received and queued for processing" whether the renderer later   *)
(* returns null or not.                                                    *)
(***************************************************************************)
C8_NullRenderingBody ==
    \A r \in Requests :
        /\ (Accepted(reqs[r]) /\ Rendered(reqs[r]) /\ reqs[r].embed = None) =>
               /\ reqs[r].status = 200
               /\ reqs[r].message =
                      IF deploy = "serverless"
                      THEN "Event received but not processed"
                      ELSE "Event received and queued for processing"
        /\ (Rendered(reqs[r]) /\ reqs[r].embed # None /\ reqs[r].status # 0) =>
               /\ reqs[r].message # "Event received but not processed"
               /\ deploy = "main" =>
                      reqs[r].message = "Event received and queued for processing"

\* the serverless handler skipping an event it does not support
C8_Witness ==
    \E r \in Requests :
        /\ deploy = "serverless"
        /\ Accepted(reqs[r])
        /\ Rendered(reqs[r])
        /\ reqs[r].embed = None
        /\ reqs[r].message = "Event received but not processed"

(***************************************************************************)
(* C9 as stated: the handler never waits for the chat send: while the send *)
(* of an accepted request is in flight its 200 response is already out.    *)
(***************************************************************************)
C9_AsStated ==
    \A r \in Requests :
        reqs[r].pc = "sending" => reqs[r].status = 200

(***************************************************************************)
(* C9 amended: in the FastAPI server the 200 response of an accepted       *)
(* request is out before its background task renders or sends, whatever    *)
(* the interleaving; the serverless handler blocks on the chat send and    *)
(* answers only after it has completed.                                    *)
(***************************************************************************)
C9_ResponseBeforeSend ==
    \A r \in Requests :
        /\ (deploy = "main" /\ (Rendered(reqs[r]) \/ reqs[r].pc \in {"queued", "sending"}))
               => reqs[r].status = 200
        /\ (deploy = "serverless" /\ reqs[r].pc = "sending")
               => reqs[r].status = 0

\* two sends in flight at once, both requests already answered
C9_Witness ==
    /\ deploy = "main"
    /\ \A r \in Requests : reqs[r].pc = "sending" /\ reqs[r].status = 200

(***************************************************************************)
(* C10 as stated: a verified, parsed request with a supported event type   *)
(* is answered 200 whether its send succeeds, fails or finds no channel.   *)
(***************************************************************************)
C10_AsStated ==
    \A r \in Requests :
        (Accepted(reqs[r]) /\ reqs[r].event_type \in SupportedEvents
            /\ reqs[r].status # 0) => reqs[r].status = 200

(***************************************************************************)
(* C10 amended: in the FastAPI server such a request is answered 200 with  *)
(* the same body whether its send succeeds, fails or finds no channel; the *)
(* serverless handler answers 200 only when the send succeeded and 500     *)
(* when it failed or the token or channel is not configured.               *)
(***************************************************************************)
C10_DispatchOutcomeAndResponse ==
    \A r \in Requests :
        (Accepted(reqs[r]) /\ reqs[r].event_type \in SupportedEvents
            /\ reqs[r].status # 0) =>
            IF deploy = "main"
            THEN /\ reqs[r].status = 200
                 /\ reqs[r].message = "Event received and queued for processing"
            ELSE /\ reqs[r].pc = "done"
                 /\ reqs[r].status =
                        IF reqs[r].embed = None \/ reqs[r].sent = "ok"
                        THEN 200 ELSE 500

\* one failed send, one refused for want of a channel, both answered 200
C10_Witness ==
    /\ deploy = "main"
    /\ \E r1, r2 \in Requests :
        /\ reqs[r1].pc = "done" /\ reqs[r1].sent = "forbidden"
        /\ reqs[r2].pc = "done" /\ reqs[r2].sent = "no_channel"
        /\ reqs[r1].status = 200 /\ reqs[r2].status = 200
        /\ reqs[r1].message = reqs[r2].message

(***************************************************************************)
(* C11: a dispatch that finds the channel unset (as between the start of   *)
(* the process and the bot becoming ready) returns false in the same step: *)
(* no send call is issued, nothing is waited for and no exception path is  *)
(* taken.                                                                  *)
(***************************************************************************)
C11_UnsetChannelFailsFast ==
    /\ [](\A r \in Requests :
            reqs[r].sent = "no_channel" =>
                /\ reqs[r].pc = "done"
                /\ reqs[r].returned = "false"
                /\ reqs[r].calls = 0
                /\ SendsFor(r) = {})
    /\ [][\A r \in Requests :
            (/\ deploy = "main"
             /\ reqs[r].pc = "queued"
             /\ reqs'[r].dispatches = 1
             /\ ~bots'[reqs'[r].bot].target_channel) =>
                /\ reqs'[r].pc = "done"
                /\ reqs'[r].sent = "no_channel"
                /\ reqs'[r].returned = "false"
                /\ reqs'[r].calls = 0
                /\ sendCalls' = sendCalls]_vars

\* an event dispatched on the running process before its bot is ready
C11_Witness ==
    \E r \in Requests :
        /\ deploy = "main"
        /\ phase = "serving"
        /\ reqs[r].bot = bot_instance
        /\ ~bots[reqs[r].bot].ready
        /\ reqs[r].dispatches = 1
        /\ reqs[r].sent = "no_channel"
        /\ reqs[r].pc = "done"

(***************************************************************************)
(* C12: a dispatch on an established channel issues exactly one send call; *)
(* it returns true exactly when that send completed, and false, with no    *)
(* second send, when the send failed with permission denied, an HTTP error *)
(* or any other exception.                                                 *)
(***************************************************************************)
C12_OneSendPerDispatch ==
    \A r \in Requests :
        (reqs[r].dispatches > 0 /\ reqs[r].sent # "no_channel") =>
            /\ reqs[r].dispatches = 1
            /\ reqs[r].calls = 1
            /\ Cardinality(SendsFor(r)) = 1
            /\ \A c \in SendsFor(r) : c.kind = "event" /\ c.embed = reqs[r].embed
            /\ reqs[r].pc \in {"sending", "done"}
            /\ reqs[r].pc = "sending" => reqs[r].returned = "none"
            /\ reqs[r].pc = "done" =>
                   /\ reqs[r].sent \in SendOutcomes
                   /\ reqs[r].returned = IF reqs[r].sent = "ok" THEN "true" ELSE "false"

\* one send refused for want of permission, one broken by the transport, one
\* failing otherwise: each returned false after a single call
C12_Witness ==
    \E r1, r2 \in Requests :
        /\ reqs[r1].pc = "done" /\ reqs[r2].pc = "done"
        /\ reqs[r1].sent = "forbidden" /\ reqs[r2].sent \in {"http_error", "error"}
        /\ reqs[r1].returned = "false" /\ reqs[r2].returned = "false"
        /\ reqs[r1].calls = 1 /\ reqs[r2].calls = 1

\* what the renderer of the running deployment makes of request q
RenderOf(q) ==
    IF deploy = "main"
    THEN create_event_embed(q.event_type, json_loads(q.body).value)
    ELSE api_create_event_embed(q.event_type, json_loads(q.body).value)

\* verified, decoded, of a supported event type and with a payload that renders
Renderable(q) ==
    /\ Accepted(q)
    /\ q.event_type \in SupportedEvents
    /\ RenderOf(q) # None

(***************************************************************************)
(* C13: every verified, decoded request of a supported event type with a   *)
(* renderable payload leads to exactly one dispatch call, carrying the     *)
(* notification rendered from that request, and never to a second one; a   *)
(* request identical to an earlier one is dispatched all the same.         *)
(***************************************************************************)
C13_DispatchedExactlyOnce ==
    /\ <>[](\A r \in Requests :
               Renderable(reqs[r]) => reqs[r].dispatches = 1)
    /\ [](\A r \in Requests :
            /\ reqs[r].dispatches <= 1
            /\ reqs[r].calls <= reqs[r].dispatches
            /\ reqs[r].dispatches = 1 =>
                   /\ Renderable(reqs[r])
                   /\ reqs[r].embed = RenderOf(reqs[r])
                   /\ \A c \in SendsFor(r) : c.embed = RenderOf(reqs[r]))
    /\ [][\A r \in Requests : reqs'[r].dispatches >= reqs[r].dispatches]_vars

\* the same delivery received twice and dispatched twice
C13_Witness ==
    /\ deploy = "main"
    /\ \A r \in Requests :
           /\ reqs[r].body = <<"{", RefMember, "}">>
           /\ reqs[r].event_type = "push"
           /\ reqs[r].signature = reqs[1].signature
           /\ reqs[r].dispatches = 1
           /\ reqs[r].sent = "ok"
           /\ Cardinality(SendsFor(r)) = 1

\* a payload whose members, where present, have the types GitHub sends
WellShaped(p) ==
    /\ IsDict(p)
    /\ \A k \in DOMAIN p.m \cap {"action", "ref"} : IsStr(p.m[k])
    /\ \A k \in DOMAIN p.m \cap {"pull_request", "release"} :
           /\ IsDict(p.m[k])
           /\ \A b \in DOMAIN p.m[k].m \cap {"body"} :
                  p.m[k].m[b].t \in {"str", "null"}
    /\ \A k \in DOMAIN p.m \cap {"issue"} :
           /\ IsDict(p.m[k])
           /\ \A l \in DOMAIN p.m[k].m \cap {"labels"} :
                  /\ p.m[k].m[l].t = "list"
                  /\ \A i \in 1..Len(p.m[k].m[l].items) :
                         /\ IsDict(p.m[k].m[l].items[i])
                         /\ \A n \in DOMAIN p.m[k].m[l].items[i].m \cap {"name"} :
                                IsStr(p.m[k].m[l].items[i].m[n])
    /\ \A k \in DOMAIN p.m \cap {"commits"} :
           /\ p.m[k].t = "list"
           /\ \A i \in 1..Len(p.m[k].items) :
                  /\ IsDict(p.m[k].items[i])
                  /\ \A n \in DOMAIN p.m[k].items[i].m \cap {"message"} :
                         IsStr(p.m[k].items[i].m[n])

(***************************************************************************)
(* C14 as stated: for a well-shaped payload the renderer returns a         *)
(* notification exactly when the event type is push, pull_request, issues, *)
(* release, create or delete.                                              *)
(***************************************************************************)
C14_AsStated ==
    (rd.pc = "done" /\ WellShaped(rd.payload)) =>
        (rd.result # None <=>
            rd.event_type \in {"push", "pull_request", "issues", "release",
                               "create", "delete"})

(***************************************************************************)
(* C14 amended: for a well-shaped payload the renderer of the FastAPI      *)
(* server returns a notification exactly for push, pull_request, issues,   *)
(* release, create and delete, and the renderer of the serverless handler  *)
(* exactly for push, pull_request, issues and release; for every other     *)
(* event type, the empty one included, each returns null.                  *)
(***************************************************************************)
C14_AllowListPerRenderer ==
    (rd.pc = "done" /\ WellShaped(rd.payload)) =>
        (rd.result # None <=>
            rd.event_type \in
                IF rd.impl = "server"
                THEN {"push", "pull_request", "issues", "release", "create", "delete"}
                ELSE {"push", "pull_request", "issues", "release"})

\* a create event with a well-shaped payload, not rendered by the serverless
\* handler
C14_Witness ==
    /\ rd.pc = "done"
    /\ rd.impl = "api"
    /\ rd.event_type = "create"
    /\ WellShaped(rd.payload)
    /\ rd.result = None

(***************************************************************************)
(* C15: whatever the event type and the decoded value passed as payload,   *)
(* not an object or with a member of an unexpected type included, the      *)
(* renderer returns a notification or null: no exception leaves it, on its *)
(* own or inside a request.                                                *)
(***************************************************************************)
C15_RenderNeverRaises ==
    /\ rd.result # Raised
    /\ rd.pc = "done" => (rd.result = None \/ ~rd.result.none)
    /\ \A r \in Requests : reqs[r].embed # Raised
    /\ \A c \in sendCalls : c.kind # "error"

\* an issues event whose label list holds a bare string, rendered to null
C15_Witness ==
    /\ rd.pc = "done"
    /\ rd.event_type = "issues"
    /\ IsDict(rd.payload)
    /\ ~WellShaped(rd.payload)
    /\ create_issue_embed(rd.payload) = Raised
    /\ rd.result = None

(***************************************************************************)
(* C16 as stated: the 500 answer to an unexpected exception has a fixed    *)
(* body: two requests that fail with different exceptions receive the same *)
(* 500 body.                                                               *)
(***************************************************************************)
C16_AsStated ==
    \A r1, r2 \in Requests :
        (/\ reqs[r1].status = 500 /\ ~utf8_decodes(reqs[r1].body)
         /\ reqs[r2].status = 500 /\ ~utf8_decodes(reqs[r2].body)) =>
            reqs[r1].message = reqs[r2].message

\* every value of the three variables is non-empty and the channel identifier
\* is a number other than zero
CredentialsComplete(e) ==
    /\ Truthy(e.DISCORD_TOKEN)
    /\ Truthy(e.GITHUB_WEBHOOK_SECRET)
    /\ Truthy(e.DISCORD_CHANNEL_ID)
    /\ \A i \in 1..Len(e.DISCORD_CHANNEL_ID.val) :
           \E d \in 1..10 : Digits[d] = e.DISCORD_CHANNEL_ID.val[i]
    /\ \E i \in 1..Len(e.DISCORD_CHANNEL_ID.val) :
           e.DISCORD_CHANNEL_ID.val[i] # "0"

(***************************************************************************)
(* C17: when the bot credential, the channel identifier (empty, zero or    *)
(* not a number) or the webhook secret is empty at startup, the process    *)
(* leaves the boot phase only by exiting: no bot is constructed, no        *)
(* request is served and nothing is sent.                                  *)
(***************************************************************************)
C17_IncompleteConfigurationExits ==
    /\ []((deploy = "main" /\ ~CredentialsComplete(env)) =>
            /\ phase \in {"boot", "exited", "crashed"}
            /\ bots = <<>>
            /\ bot_instance = 0
            /\ sendCalls = {}
            /\ \A r \in Requests : reqs[r] = IdleRequest)
    /\ [][(deploy = "main" /\ ~CredentialsComplete(env) /\ phase = "boot"
              /\ phase' # phase) => phase' \in {"exited", "crashed"}]_vars

\* the process started with a channel identifier that is not a number, and
\* exited by the validation
C17_Witness ==
    /\ deploy = "main"
    /\ Truthy(env.DISCORD_TOKEN)
    /\ Truthy(env.GITHUB_WEBHOOK_SECRET)
    /\ env.DISCORD_CHANNEL_ID = EnvVal(<<"x">>)
    /\ phase = "exited"

\* the values of the blocks of a notification that carry this name
FieldValues(embed, name) ==
    {embed.fields[i].value : i \in {j \in 1..Len(embed.fields) :
                                        embed.fields[j].name = name}}

\* text unchanged up to the cap, else its first keep characters and "..."
Capped(text, cap, keep) ==
    IF Len(text) <= cap THEN text
    ELSE [i \in 1..(keep + 3) |-> IF i <= keep THEN text[i] ELSE "."]

\* the rendered event is a pull request or release whose body is a text
BodyRendered ==
    /\ rd.pc = "done"
    /\ rd.event_type \in {"pull_request", "release"}
    /\ IsDict(rd.payload)
    /\ rd.event_type \in DOMAIN rd.payload.m
    /\ IsDict(rd.payload.m[rd.event_type])
    /\ "body" \in DOMAIN rd.payload.m[rd.event_type].m
    /\ IsStr(rd.payload.m[rd.event_type].m["body"])

RenderedBody == rd.payload.m[rd.event_type].m["body"].s

\* the rendered event is a push whose last commit has a text as message
CommitRendered ==
    /\ rd.pc = "done"
    /\ rd.event_type = "push"
    /\ IsDict(rd.payload)
    /\ "commits" \in DOMAIN rd.payload.m
    /\ rd.payload.m["commits"].t = "list"
    /\ rd.payload.m["commits"].items # <<>>
    /\ LET last == rd.payload.m["commits"].items[Len(rd.payload.m["commits"].items)]
       IN  IsDict(last) /\ "message" \in DOMAIN last.m /\ IsStr(last.m["message"])

RenderedCommitMessage ==
    LET items == rd.payload.m["commits"].items
    IN  items[Len(items)].m["message"].s

\* the address of the last commit, "#" when it has none
RenderedCommitUrl ==
    LET items == rd.payload.m["commits"].items
        last  == items[Len(items)]
    IN  IF "url" \in DOMAIN last.m THEN py_str(last.m["url"]) ELSE <<"#">>

\* the Latest Commit block links the capped message
CommitCapped ==
    CommitRendered =>
        /\ rd.result # None
        /\ FieldValues(rd.result, "Latest Commit") =
               {JStr(<<"[">> \o Capped(RenderedCommitMessage, CommitCap, CommitKeep)
                     \o <<"](">> \o RenderedCommitUrl \o <<")">>)}
        /\ Len(Capped(RenderedCommitMessage, CommitCap, CommitKeep)) <= CommitCap
        /\ (Len(RenderedCommitMessage) > CommitCap =>
               Len(Capped(RenderedCommitMessage, CommitCap, CommitKeep)) = CommitCap)

(***************************************************************************)
(* C18 as stated: for a pull-request or release body of every length n     *)
(* the notification has a Description field, equal to the body when        *)
(* n <= 500 and to its first 497 characters and "..." when n > 500; the    *)
(* commit message is capped alike at 100 with 97 characters kept.          *)
(***************************************************************************)
C18_AsStated ==
    /\ BodyRendered =>
           /\ rd.result # None
           /\ FieldValues(rd.result, "Description") =
                  {JStr(Capped(RenderedBody, DescriptionCap, DescriptionKeep))}
    /\ CommitCapped

(***************************************************************************)
(* C18: a pull-request or release body of length 0 gives no Description    *)
(* field; a body of length 1 to 500 gives a Description field equal to the *)
(* body; a longer body gives its first 497 characters followed by "...",   *)
(* 500 characters in all.  The last commit's message is capped alike at    *)
(* 100 characters with 97 kept, inside the link text of the Latest Commit  *)
(* field.                                                                  *)
(***************************************************************************)
C18_TextCaps ==
    /\ BodyRendered =>
           /\ rd.result # None
           /\ FieldValues(rd.result, "Description") =
                  IF RenderedBody = <<>> THEN {}
                  ELSE {JStr(Capped(RenderedBody, DescriptionCap, DescriptionKeep))}
           /\ \A v \in FieldValues(rd.result, "Description") :
                  /\ Len(v.s) <= DescriptionCap
                  /\ (Len(RenderedBody) > DescriptionCap => Len(v.s) = DescriptionCap)
    /\ CommitCapped

\* a pull-request body of 600 characters rendered to a Description of 500
C18_Witness ==
    /\ BodyRendered
    /\ rd.event_type = "pull_request"
    /\ Len(RenderedBody) = DescriptionCap + MaxOver
    /\ \E v \in FieldValues(rd.result, "Description") :
           Len(v.s) = DescriptionCap /\ SubSeq(v.s, DescriptionKeep + 1, DescriptionCap) = Ellipsis

\* the rendered event is an issue whose labels are a list of named labels
LabelsRendered ==
    /\ rd.pc = "done"
    /\ rd.event_type = "issues"
    /\ IsDict(rd.payload)
    /\ "issue" \in DOMAIN rd.payload.m
    /\ IsDict(rd.payload.m["issue"])
    /\ "labels" \in DOMAIN rd.payload.m["issue"].m
    /\ rd.payload.m["issue"].m["labels"].t = "list"
    /\ \A i \in 1..Len(rd.payload.m["issue"].m["labels"].items) :
           LET label == rd.payload.m["issue"].m["labels"].items[i]
           IN  IsDict(label) /\ "name" \in DOMAIN label.m /\ IsStr(label.m["name"])

RenderedLabelNames ==
    LET items == rd.payload.m["issue"].m["labels"].items
    IN  [i \in 1..Len(items) |-> items[i].m["name"].s]

\* the first k names with ", " between them, built from the left
RECURSIVE CommaJoined(_, _)
CommaJoined(names, k) ==
    IF k = 0 THEN <<>>
    ELSE IF k = 1 THEN names[1]
    ELSE CommaJoined(names, k - 1) \o <<", ">> \o names[k]

\* text contains the chunk sequence part
Contains(text, part) ==
    \E i \in 0..(Len(text) - Len(part)) : SubSeq(text, i + 1, i + Len(part)) = part

(***************************************************************************)
(* C19: an issues event with a list of n labels has no Labels field when   *)
(* n = 0, else one Labels field whose value is the names of the first      *)
(* min(n, 5) labels in payload order joined by ", "; no label after the    *)
(* fifth appears in it.                                                    *)
(***************************************************************************)
C19_FirstFiveLabels ==
    LabelsRendered =>
        LET n     == Len(RenderedLabelNames)
            shown == IF n < LabelsShown THEN n ELSE LabelsShown
            blocks == {i \in 1..Len(rd.result.fields) :
                           rd.result.fields[i].name = "Labels"}
        IN  /\ rd.result # None
            /\ n = 0 => blocks = {}
            /\ n > 0 =>
                 /\ Cardinality(blocks) = 1
                 /\ FieldValues(rd.result, "Labels") =
                        {JStr(CommaJoined(RenderedLabelNames, shown))}
                 /\ \A v \in FieldValues(rd.result, "Labels") :
                        \A i \in (LabelsShown + 1)..n :
                            ~Contains(v.s, RenderedLabelNames[i])

\* eight labels rendered to a Labels field that names five of them
C19_Witness ==
    /\ LabelsRendered
    /\ Len(RenderedLabelNames) = MaxLabels
    /\ \E v \in FieldValues(rd.result, "Labels") :
           /\ Contains(v.s, RenderedLabelNames[LabelsShown])
           /\ ~Contains(v.s, RenderedLabelNames[MaxLabels])

(***************************************************************************)
(* C20 as stated: when the dispatch of a supported event's notification    *)
(* has failed (permission denied, transport error or another exception of  *)
(* the send), the background task has attempted a diagnostic error         *)
(* notification for that event.                                            *)
(***************************************************************************)
C20_AsStated ==
    \A r \in Requests :
        (/\ deploy = "main"
         /\ reqs[r].pc = "done"
         /\ reqs[r].sent \in SendOutcomes \ {"ok"}) =>
            \E c \in SendsFor(r) : c.kind = "error"

(***************************************************************************)
(* C21: send_error_notification never raises to its caller.  With the      *)
(* channel unset it sends nothing; with the channel set it issues one send *)
(* whose error text is the first 1000 characters of the message, and a     *)
(* failure of that send is swallowed.  No background task ends with an     *)
(* exception: every task that has run is waiting for its send or done.     *)
(***************************************************************************)
C21_ErrorNotifierNeverRaises ==
    /\ (rd.impl = "notify" /\ rd.pc = "done") =>
           /\ ~rd.raised
           /\ ~rd.channel => (rd.calls = 0 /\ rd.result = None)
           /\ rd.channel =>
                 /\ rd.calls = 1
                 /\ rd.result # None
                 /\ LET n == Len(rd.payload.s)
                        k == IF n < ErrorCap THEN n ELSE ErrorCap
                    IN  FieldValues(rd.result, "Error Details") =
                            {JStr(CodeFence \o [i \in 1..k |-> rd.payload.s[i]]
                                  \o CodeFence)}
    /\ \A r \in Requests :
           /\ reqs[r].pc \in {"idle", "queued", "sending", "done"}
           /\ Cardinality({c \in SendsFor(r) : c.kind = "error"}) <= 1

\* a message of 1100 characters, the channel set, and the send failing with
\* an exception that is no library error
C21_Witness ==
    /\ rd.impl = "notify"
    /\ rd.pc = "done"
    /\ rd.channel
    /\ rd.outcome = "error"
    /\ Len(rd.payload.s) = ErrorCap + MaxOver
    /\ rd.calls = 1

\* the rendered event is a push whose ref is a text
RefRendered ==
    /\ rd.pc = "done"
    /\ rd.impl \in {"server", "api"}
    /\ rd.event_type = "push"
    /\ WellShaped(rd.payload)
    /\ "ref" \in DOMAIN rd.payload.m
    /\ rd.result # None

RenderedRef == rd.payload.m["ref"].s

(***************************************************************************)
(* C22 as stated: the branch in the title of a push is ref with exactly    *)
(* one leading "refs/heads/" removed when ref starts with it, and ref      *)
(* itself otherwise; what follows the prefix is kept as it is.             *)
(***************************************************************************)
C22_AsStated ==
    RefRendered =>
        rd.result.title =
            <<"New Push to ">> \o
                (IF RenderedRef # <<>> /\ Head(RenderedRef) = "refs/heads/"
                 THEN Tail(RenderedRef) ELSE RenderedRef)

\* position k of the text is a backslash that escapes the character after it
RECURSIVE EscapeStart(_, _)
EscapeStart(text, k) ==
    /\ k >= 1
    /\ k <= Len(text)
    /\ text[k] = "\\"
    /\ ~EscapeStart(text, k - 1)

\* a cut after the first keep characters separates a backslash from the
\* character it escapes
CutsEscape(text, keep) == Len(text) > keep /\ EscapeStart(text, keep)

(***************************************************************************)
(* C24 as stated: when a body or a commit message is truncated, the cut    *)
(* never falls between a backslash and the character it escapes, and the   *)
(* truncated text ends with "...".                                         *)
(***************************************************************************)
C24_AsStated ==
    /\ (BodyRendered /\ Len(RenderedBody) > DescriptionCap) =>
           /\ rd.result # None
           /\ \A v \in FieldValues(rd.result, "Description") :
                  /\ SubSeq(v.s, Len(v.s) - 2, Len(v.s)) = Ellipsis
                  /\ ~CutsEscape(RenderedBody, Len(v.s) - 3)
    /\ (CommitRendered /\ Len(RenderedCommitMessage) > CommitCap) =>
           /\ rd.result # None
           /\ \A v \in FieldValues(rd.result, "Latest Commit") :
                  LET shown == SubSeq(v.s, 2, Len(v.s) - 3)
                  IN  /\ SubSeq(shown, Len(shown) - 2, Len(shown)) = Ellipsis
                      /\ ~CutsEscape(RenderedCommitMessage, Len(shown) - 3)

\* the payload has a member at the end of this path of member names
RECURSIVE Present(_, _)
Present(v, path) ==
    \/ path = <<>>
    \/ /\ IsDict(v)
       /\ Head(path) \in DOMAIN v.m
       /\ Present(v.m[Head(path)], Tail(path))

RECURSIVE ValueAt(_, _)
ValueAt(v, path) ==
    IF path = <<>> THEN v ELSE ValueAt(v.m[Head(path)], Tail(path))

\* the text of the member at the path, or the placeholder when it is absent
At(v, path, placeholder) ==
    IF Present(v, path) THEN py_str(ValueAt(v, path)) ELSE placeholder

\* the rendered payload lacks some subset of the members its renderer reads
SparseRendered ==
    /\ rd.pc = "done"
    /\ rd.impl \in {"server", "api"}
    /\ rd.event_type \in RenderedTypes(rd.impl)
    /\ rd.payload \in SparsePayloads(rd.event_type)

RepositoryPlaceholders ==
    FieldValues(rd.result, "Repository") =
        {JStr(<<"[">> \o At(rd.payload, <<"repository", "full_name">>, <<"Unknown">>)
              \o <<"](">> \o At(rd.payload, <<"repository", "html_url">>, <<"#">>)
              \o <<")">>)}

\* the person block and the author line name the login, or "Unknown"
ActorPlaceholders(block, path) ==
    /\ FieldValues(rd.result, block) = {JStr(At(rd.payload, path, <<"Unknown">>))}
    /\ rd.result.author = At(rd.payload, path, <<"Unknown">>)

\* the numbered block of a pull request or issue: "?" and "Unknown"
NumberedPlaceholders(block, parent) ==
    \E i \in 1..Len(rd.result.fields) :
        /\ rd.result.fields[i].name = block
        /\ rd.result.fields[i].number = At(rd.payload, <<parent, "number">>, <<"?">>)
        /\ rd.result.fields[i].value =
               JStr(Bold(IF Present(rd.payload, <<parent, "state">>)
                         THEN <<"Open">> ELSE <<"Unknown">>))

TitleAction(word) ==
    rd.result.title =
        <<word>> \o (IF Present(rd.payload, <<"action">>)
                     THEN str_title(rd.payload.m["action"].s) ELSE <<>>)

PushPlaceholders ==
    LET commit == IF Present(rd.payload, <<"commits">>)
                  THEN rd.payload.m["commits"].items[1] ELSE JsonObject(NoMembers)
    IN  /\ rd.result.title =
               <<"New Push to ">> \o
                   (IF Present(rd.payload, <<"ref">>) THEN <<"main">> ELSE <<>>)
        /\ rd.result.description =
               <<"**">> \o (IF Present(rd.payload, <<"commits">>)
                            THEN <<"1">> ELSE <<"0">>)
                   \o <<" commit(s)** pushed to ", BackQuote>>
                   \o At(rd.payload, <<"repository", "name">>, <<"Unknown">>)
                   \o <<BackQuote>>
        /\ RepositoryPlaceholders
        /\ ActorPlaceholders("Pushed by", <<"pusher", "name">>)
        /\ FieldValues(rd.result, "Commits") =
               {JStr(IF Present(rd.payload, <<"commits">>) THEN <<"1">> ELSE <<"0">>)}
        /\ FieldValues(rd.result, "Latest Commit") =
               IF Present(rd.payload, <<"commits">>)
               THEN {JStr(<<"[">> \o At(commit, <<"message">>, <<"No message">>)
                          \o <<"](">> \o At(commit, <<"url">>, <<"#">>) \o <<")">>)}
               ELSE {}

PullRequestPlaceholders ==
    /\ TitleAction("Pull Request ")
    /\ rd.result.description =
           Bold(At(rd.payload, <<"pull_request", "title">>, <<"No title">>))
    /\ NumberedPlaceholders("PR #", "pull_request")
    /\ RepositoryPlaceholders
    /\ ActorPlaceholders("Author", <<"pull_request", "user", "login">>)
    /\ FieldValues(rd.result, "Description") =
           IF Present(rd.payload, <<"pull_request", "body">>)
           THEN {JStr(<<"b">>)} ELSE {}

IssuePlaceholders ==
    /\ TitleAction("Issue ")
    /\ rd.result.description =
           Bold(At(rd.payload, <<"issue", "title">>, <<"No title">>))
    /\ NumberedPlaceholders("Issue #", "issue")
    /\ RepositoryPlaceholders
    /\ ActorPlaceholders("Author", <<"issue", "user", "login">>)
    /\ FieldValues(rd.result, "Labels") =
           IF ~Present(rd.payload, <<"issue", "labels">>) THEN {}
           ELSE IF Present(rd.payload.m["issue"].m["labels"].items[1], <<"name">>)
           THEN {JStr(<<"bug", ", ", "ui">>)}
           ELSE {JStr(<<", ">>)}

ReleasePlaceholders ==
    /\ TitleAction("Release ")
    /\ rd.result.description =
           Bold(IF Present(rd.payload, <<"release", "name">>) THEN <<"n">>
                ELSE At(rd.payload, <<"release", "tag_name">>, <<"No title">>))
    /\ FieldValues(rd.result, "Tag") =
           {JStr(At(rd.payload, <<"release", "tag_name">>, <<"No tag">>))}
    /\ RepositoryPlaceholders
    /\ ActorPlaceholders("Author", <<"release", "author", "login">>)
    /\ FieldValues(rd.result, "Description") =
           IF Present(rd.payload, <<"release", "body">>)
           THEN {JStr(<<"b">>)} ELSE {}

RefEventPlaceholders(done, verb, by) ==
    /\ rd.result.title =
           (IF Present(rd.payload, <<"ref_type">>) THEN <<"Branch">> ELSE <<>>)
               \o <<done>>
    /\ rd.result.description =
           Bold(At(rd.payload, <<"ref">>, <<>>)) \o <<" ", verb, " ", BackQuote>>
               \o At(rd.payload, <<"repository", "name">>, <<"Unknown">>)
               \o <<BackQuote>>
    /\ RepositoryPlaceholders
    /\ ActorPlaceholders(by, <<"sender", "login">>)

(***************************************************************************)
(* C23: for a payload object of a supported event type in which any subset *)
(* of the members the renderer reads is absent, the renderer returns a     *)
(* notification, never null, and every absent value shows as its           *)
(* placeholder: "Unknown", "#", "?", "No title", "No message", "No tag",   *)
(* zero commits, the empty string, or no block at all for an absent body   *)
(* or label list.                                                          *)
(***************************************************************************)
C23_AbsentFieldsGetPlaceholders ==
    SparseRendered =>
        /\ rd.result # None
        /\ CASE rd.event_type = "push" -> PushPlaceholders
             [] rd.event_type = "pull_request" -> PullRequestPlaceholders
             [] rd.event_type = "issues" -> IssuePlaceholders
             [] rd.event_type = "release" -> ReleasePlaceholders
             [] rd.event_type = "create" ->
                    RefEventPlaceholders(" Created", "created in", "Created by")
             [] rd.event_type = "delete" ->
                    RefEventPlaceholders(" Deleted", "deleted from", "Deleted by")

\* a pull request event whose payload is the empty object, rendered with
\* every placeholder
C23_Witness ==
    /\ SparseRendered
    /\ rd.event_type = "pull_request"
    /\ rd.payload = JsonObject(NoMembers)
    /\ rd.result # None
    /\ rd.result.author = <<"Unknown">>
    /\ rd.result.description = <<"**", "No title", "**">>

\* the process-wide reference is set and the lifespan has not run stop_bot
ReferenceHeld == deploy = "main" /\ phase \in {"serving", "farewell"}

\* a step of start_bot: the first bot, made the process-wide one
AssignedByStartBot ==
    /\ phase = "boot" /\ phase' = "serving"
    /\ bot_instance = 0
    /\ bots' = Append(bots, StartedBot)
    /\ bot_instance' = Len(bots')

\* a step of stop_bot: the bot is closed and the reference cleared
ClearedByStopBot ==
    /\ phase \in {"serving", "farewell"} /\ phase' = "bot_stopped"
    /\ bot_instance # 0
    /\ bot_instance' = 0
    /\ bots' = [bots EXCEPT ![bot_instance].closed = TRUE]

\* a step of get_bot that found the reference cleared: a bot that was never
\* started is made the process-wide one
CreatedByGetBot ==
    /\ phase \in {"bot_stopped", "stopped"}
    /\ bot_instance = 0
    /\ bots' = Append(bots, NewBot)
    /\ bot_instance' = Len(bots')
    /\ \E r \in Requests : reqs[r].pc = "queued" /\ reqs'[r].bot = bot_instance'

FarewellCalls == {c \in sendCalls : c.kind = "farewell"}

\* stop_bot has returned
BotStopped == deploy = "main" /\ phase \in {"bot_stopped", "stopped"}

\* close() hands the farewell to the channel of the bot that is still open
FarewellAttempted ==
    /\ bots[BotTaskBot].target_channel
    /\ FarewellCalls = {}
    /\ sendCalls' = sendCalls \cup {SendCall(0, "farewell", BotTaskBot, None)}
    /\ ~bots'[BotTaskBot].closed
    /\ bot_instance' = BotTaskBot

\* the connection is closed and the reference cleared, with no further send
ClosedAndCleared ==
    /\ bots'[BotTaskBot].closed
    /\ bot_instance' = 0
    /\ sendCalls' = sendCalls

(***************************************************************************)
(* C26: at shutdown one farewell send is attempted, before the connection  *)
(* is closed, when the channel is established, and none when it is not;    *)
(* in both cases, and whatever the farewell send returns or raises, the    *)
(* connection is then closed and the bot reference cleared.                *)
(***************************************************************************)
C26_FarewellThenClose ==
    /\ [](BotStopped =>
              /\ bots[BotTaskBot].closed
              /\ Cardinality(FarewellCalls) =
                     (IF bots[BotTaskBot].target_channel THEN 1 ELSE 0))
    /\ [](deploy = "main" /\ phase \in {"boot", "serving"} => FarewellCalls = {})
    /\ [](deploy = "main" /\ phase = "farewell" =>
              \A outcome \in SendOutcomes : ENABLED farewell_returns(outcome))
    /\ [][/\ (phase = "serving" /\ phase' = "farewell" => FarewellAttempted)
          /\ (phase = "farewell" /\ phase' # phase =>
                  phase' = "bot_stopped" /\ ClosedAndCleared)
          /\ (phase = "serving" /\ phase' = "bot_stopped" =>
                  ~bots[BotTaskBot].target_channel /\ ClosedAndCleared)]_vars

\* the channel was established, the farewell was handed to it, and stop_bot
\* has closed the connection and cleared the reference
C26_Witness ==
    /\ deploy = "main"
    /\ phase = "bot_stopped"
    /\ bots[BotTaskBot].target_channel
    /\ bots[BotTaskBot].closed
    /\ bot_instance = 0
    /\ FarewellCalls = {SendCall(0, "farewell", BotTaskBot, None)}

\* a background task of a request that has been answered, not yet at its end
InFlight(r) == reqs[r].pc \in {"queued", "sending"}

OwnEmbed(r) == RenderOf(reqs[r])

EventCalls == {c \in sendCalls : c.kind = "event"}

\* the requests a step has changed
Stepped == {r \in Requests : reqs'[r] # reqs[r]}

(***************************************************************************)
(* C27: for any interleaving of concurrently handled requests, every       *)
(* notification handed to the channel is the one rendered from the event   *)
(* type and payload of its own request; a step of one request's task       *)
(* changes no other request and hands over at most that request's          *)
(* notification, so each request contributes the notification it would     *)
(* contribute when handled alone, at most once, and requests with equal    *)
(* event type and body contribute equal notifications; nothing fixes the   *)
(* order of the sends.                                                     *)
(***************************************************************************)
C27_NotificationsAreOwn ==
    /\ [](\A c \in EventCalls :
              /\ c.req \in Requests
              /\ c.embed = OwnEmbed(c.req)
              /\ c.embed \notin {None, Raised})
    /\ [](\A r \in Requests :
              /\ Cardinality({c \in EventCalls : c.req = r}) <= 1
              /\ Rendered(reqs[r]) => reqs[r].embed = OwnEmbed(r))
    /\ [](\A r, o \in Requests :
              /\ reqs[r].event_type = reqs[o].event_type
              /\ reqs[r].body = reqs[o].body
              /\ Rendered(reqs[r]) /\ Rendered(reqs[o])
              => reqs[r].embed = reqs[o].embed)
    /\ [][/\ Cardinality(Stepped) <= 1
          /\ \A c \in sendCalls' \ sendCalls :
                 c.kind \in {"event", "error"} => c.req \in Stepped]_vars

\* two requests with different event types in flight together: the one that
\* arrived second has finished its send while the first still awaits its
\* own, and each call carries the notification of its own request
C27_Witness ==
    /\ deploy = "main"
    /\ reqs[1].pc = "sending"
    /\ reqs[2].pc = "done"
    /\ reqs[2].sent = "ok"
    /\ reqs[1].event_type # reqs[2].event_type
    /\ \E c, d \in EventCalls :
          /\ c.req = 1 /\ d.req = 2
          /\ c.embed # d.embed

\* the secret the long-running process verifies with
ConfiguredSecret == config_GITHUB_WEBHOOK_SECRET(env)

\* the header GitHub computes for the body of q under the configured secret
SignedWithSecret(q) ==
    q.signature = generate_github_signature(q.body, ConfiguredSecret)

\* the lifespan has passed its startup: requests are or have been served
PastStartup ==
    deploy = "main" /\ phase \in {"serving", "farewell", "bot_stopped", "stopped"}

(***************************************************************************)
(* C29: in the server started through main.py the configuration never      *)
(* changes and has passed the validation in every state in which a request *)
(* is or has been served, so the webhook secret is non-empty there and the *)
(* verifier never answers from its verification-disabled branch: a request *)
(* passes it exactly when its header is "sha256=" plus the HMAC of its     *)
(* body under the configured secret, and every notification handed to the  *)
(* channel for a request stems from such a request.                        *)
(***************************************************************************)
C29_SecretSetWhileServing ==
    /\ [](PastStartup => config_validate(env) /\ ConfiguredSecret # <<>>)
    /\ [](deploy = "main" =>
              \A r \in Requests :
                  reqs[r].pc # "idle" =>
                      /\ PastStartup
                      /\ ConfiguredSecret # <<>>
                      /\ SigAccepted(reqs[r]) <=> SignedWithSecret(reqs[r]))
    /\ [](deploy = "main" =>
              \A c \in sendCalls :
                  c.kind \in {"event", "error"} => SignedWithSecret(reqs[c.req]))
    /\ [][env' = env /\ deploy' = deploy]_vars

\* the server has handed over the notification of a request signed with the
\* configured secret, after turning away one signed with another secret
C29_Witness ==
    /\ PastStartup
    /\ \E r, o \in Requests :
          /\ \E c \in sendCalls : c.kind = "event" /\ c.req = r
          /\ SignedWithSecret(reqs[r])
          /\ reqs[o].status = 401
          /\ reqs[o].signature = generate_github_signature(reqs[o].body, OtherSecret)

\* on_ready of the started bot found the channel: it is set, and the
\* greeting was handed to it
ChannelFound ==
    /\ bots # <<>>
    /\ bots[BotTaskBot].task # "none"
    /\ bots[BotTaskBot].ready
    /\ bots[BotTaskBot].target_channel
    /\ SendCall(0, "startup", BotTaskBot, None) \in sendCalls

\* the cases in which no channel is there for a dispatch: on_ready has not
\* run, the lookup returned nothing, start_bot failed, stop_bot has returned
BeforeOnReady == bots # <<>> /\ ~bots[BotTaskBot].ready

LookupReturnedNothing ==
    bots # <<>> /\ bots[BotTaskBot].ready /\ ~bots[BotTaskBot].target_channel

StartBotFailed == bots # <<>> /\ bots[BotTaskBot].task = "failed"

AfterStopBot == phase \in {"bot_stopped", "stopped"}

\* the task of request r calls send_github_notification in this step
Dispatches(r) ==
    /\ reqs[r].pc = "queued"
    /\ ~Entered(reqs[r], "DISPATCHED")
    /\ Entered(reqs'[r], "DISPATCHED")

(***************************************************************************)
(* C30: every send call is issued on the bot start_bot created, after an   *)
(* on_ready of that bot in which the configured channel was found.  A      *)
(* dispatch made before on_ready, after a lookup that returned nothing,    *)
(* after start_bot failed, or after stop_bot has returned, returns false   *)
(* and issues no send.                                                     *)
(***************************************************************************)
C30_SendsOnlyOnReadyChannel ==
    /\ [](deploy = "main" =>
              \A c \in sendCalls : c.bot = BotTaskBot /\ ChannelFound)
    /\ [](deploy = "main" =>
              \A r \in Requests :
                  reqs[r].sent = "no_channel" =>
                      /\ reqs[r].returned = "false"
                      /\ reqs[r].pc = "done"
                      /\ SendsFor(r) = {})
    /\ [][deploy = "main" =>
              \A r \in Requests :
                  /\ Dispatches(r)
                  /\ \/ BeforeOnReady
                     \/ LookupReturnedNothing
                     \/ StartBotFailed
                     \/ AfterStopBot
                  => /\ reqs'[r].returned = "false"
                     /\ reqs'[r].sent = "no_channel"
                     /\ reqs'[r].pc = "done"
                     /\ sendCalls' = sendCalls]_vars

\* one request was sent on the started bot; another, dispatched after
\* stop_bot on the bot get_bot then created, returned false with no send
C30_Witness ==
    /\ deploy = "main"
    /\ AfterStopBot
    /\ \E r, o \in Requests :
          /\ reqs[r].bot = BotTaskBot
          /\ \E c \in SendsFor(r) : c.kind = "event" /\ c.bot = BotTaskBot
          /\ reqs[o].bot # BotTaskBot
          /\ reqs[o].sent = "no_channel"
          /\ reqs[o].returned = "false"
          /\ SendsFor(o) = {}

====
